---- MODULE Spec2Model ----
(***************************************************************************)
(* Model of backoffice-go-service: the database driver layer (Postgres /   *)
(* MySQL drivers, Factory, Manager), the application shutdown path, the    *)
(* file logger's daily rotation, and the auth service with its controller. *)
(***************************************************************************)
EXTENDS Integers, Sequences, FiniteSets, TLC

VARIABLES
    \* ---- database layer ----
    drv,        \* the driver objects created so far: Seq of [type, useGorm, db, gormDB]
    pools,      \* every *sql.DB pool ever opened: Seq of "open" | "closed"
    drivers,    \* Manager.drivers: name -> index into drv
    regOrder,   \* history: the successful AddDriver calls, in call order
    ret,        \* what the last database-layer operation returned
    \* ---- HTTP server and process lifecycle ----
    srv,        \* the HTTP server's listener: "listening" | "closed"
    appPc,      \* where main is: serving, signalled, in Shutdown, exited
    req,        \* the requests: [st, saw] per request
    \* ---- file logger ----
    today,      \* the wall clock's calendar date, counted in days
    fl,         \* the FileLogger: [dailyRotate, currentDay, mu, writer, lvl]
    writers,    \* the lumberjack writers made so far: Seq of [date, open]
    files,      \* the log files' contents: set of [file, callDate]
    gs,         \* each logging goroutine's position and locals
    ticker,     \* the startDailyRotation goroutine's position
    lastCall,   \* per goroutine, its last completed log call
    stack,      \* the StackLogger's caller: [pc, stdout, file], the lines each logger got
    \* ---- authentication ----
    users,      \* the users table: Seq of [id, email, password, role, active]
    resp,       \* the result of the last auth call
    prevResp,   \* the result of the auth call before it
    jwt         \* tokens: [secret, issued, loggedOut, last], the configured secret,
                \* the tokens Login issued, those given to Logout, the last token call

dbVars == <<drv, pools, drivers, regOrder, ret>>
srvVars == <<srv, appPc, req>>
logVars == <<today, fl, writers, files, gs, ticker, lastCall, stack>>
authVars == <<users, resp, prevResp, jwt>>
vars == <<drv, pools, drivers, regOrder, ret, srv, appPc, req,
          today, fl, writers, files, gs, ticker, lastCall, stack,
          users, resp, prevResp, jwt>>

\* ---------------------------------------------------------------- bounds
MaxDrivers == 3
MaxPools == 2
MaxRequests == 2
MaxDate == 4
DaysPerMonth == 2
MaxUsers == 2

LogGoroutines == {"g1", "g2"}

Names == {"primary", "analytics"}

\* ---------------------------------------------------------------- helpers
Range(s) == {s[i] : i \in 1..Len(s)}

Perms(S) == {p \in [1..Cardinality(S) -> S] : \A a \in S : \E i \in DOMAIN p : p[i] = a}

NilPtr == 0

\* ---------------------------------------------------------------- driver
DriverPostgreSQL == "postgresql"
DriverMySQL == "mysql"
DriverMongoDB == "mongodb"
DriverSQLite == "sqlite"

\* NewPostgresDriver / NewMySQLDriver: config kept, db and gormDB left nil.
NewDriver(t, useGorm) == [type |-> t, useGorm |-> useGorm, db |-> NilPtr, gormDB |-> NilPtr]

\* What the outside world lets Connect do: sql.Open fails, the ping fails,
\* gorm.Open fails (handing back nil or a handle), or everything succeeds.
ConnectOutcomes(d) ==
    {"ok", "openFail", "pingFail"} \cup (IF d.useGorm THEN {"gormFailNil", "gormFailPtr"} ELSE {})

\* Driver.Connect on driver object d with the pool list ps.
\* Returns the driver, the pool list and the error afterwards.
Connect(d, ps, outcome) ==
    IF outcome = "openFail"
    THEN \* d.db, err = sql.Open(...): both results are assigned
         [d |-> [d EXCEPT !.db = NilPtr], pools |-> ps, err |-> "openFail"]
    ELSE LET p == Len(ps) + 1
             opened == Append(ps, "open")
         IN  IF outcome = "pingFail"
             THEN [d |-> [d EXCEPT !.db = p], pools |-> opened, err |-> "pingFail"]
             ELSE IF ~d.useGorm
             THEN [d |-> [d EXCEPT !.db = p], pools |-> opened, err |-> "none"]
             ELSE IF outcome = "gormFailNil"
             THEN [d |-> [d EXCEPT !.db = p, !.gormDB = NilPtr], pools |-> opened, err |-> outcome]
             ELSE IF outcome = "gormFailPtr"
             THEN [d |-> [d EXCEPT !.db = p, !.gormDB = p], pools |-> opened, err |-> outcome]
             ELSE [d |-> [d EXCEPT !.db = p, !.gormDB = p], pools |-> opened, err |-> "none"]

\* Driver.Close: closes the pool when there is one; d.db keeps pointing at it.
\* fails: whether the pool's Close reports an error.
Close(d, ps, fails) ==
    IF d.db # NilPtr
    THEN [pools |-> [ps EXCEPT ![d.db] = "closed"], err |-> IF fails THEN "closeErr" ELSE "none"]
    ELSE [pools |-> ps, err |-> "none"]

\* Driver.Ping without the check for a nil d.db.
Ping_NoNilCheck(d, ps, pingOk) ==
    IF d.db # NilPtr /\ ps[d.db] = "closed" THEN "dbClosed"
    ELSE IF pingOk THEN "none" ELSE "pingErr"

\* Driver.Ping: pingOk is what the network says for a live pool.
Ping(d, ps, pingOk) ==
    IF d.db = NilPtr THEN "notEstablished"
    ELSE IF ps[d.db] = "closed" THEN "dbClosed"
    ELSE IF pingOk THEN "none" ELSE "pingErr"

Health(d, ps, pingOk) == Ping(d, ps, pingOk)

GetSQLDB(d) == d.db

\* A Go interface value: a dynamic type and a pointer. The nil interface has neither.
NilInterface == [typ |-> "nil", ptr |-> NilPtr]

\* GetGormDB returns interface{}: the *gorm.DB field is boxed whatever it holds.
GetGormDB(d) == [typ |-> "*gorm.DB", ptr |-> d.gormDB]

Type(d) == d.type

\* ---------------------------------------------------------------- factory
ConfigKinds == {"*PostgresConfig", "*MySQLConfig"}

\* The configurations the Manager is exercised with: a Postgres database
\* behind the ORM and a MySQL database on raw SQL.
ConfigMenu == {[kind |-> "*PostgresConfig", useGorm |-> TRUE],
               [kind |-> "*MySQLConfig", useGorm |-> FALSE]}
DriverTags == {DriverPostgreSQL, DriverMySQL, DriverMongoDB, DriverSQLite, "oracle"}

\* Factory.CreateDriver without the type assertion on the config.
CreateDriver_AnyConfig(driverType, cfgKind, useGorm) ==
    IF driverType \in {DriverPostgreSQL, DriverMySQL}
    THEN [ok |-> TRUE, err |-> "none", d |-> NewDriver(driverType, useGorm)]
    ELSE IF driverType \in {DriverMongoDB, DriverSQLite}
    THEN [ok |-> FALSE, err |-> "notImplemented", d |-> NewDriver("", FALSE)]
    ELSE [ok |-> FALSE, err |-> "unsupported", d |-> NewDriver("", FALSE)]

\* Factory.CreateDriver: the switch on the tag and the type assertion on the config.
CreateDriver(driverType, cfgKind, useGorm) ==
    IF driverType = DriverPostgreSQL
    THEN IF cfgKind # "*PostgresConfig"
         THEN [ok |-> FALSE, err |-> "invalidConfig", d |-> NewDriver("", FALSE)]
         ELSE [ok |-> TRUE, err |-> "none", d |-> NewDriver(DriverPostgreSQL, useGorm)]
    ELSE IF driverType = DriverMySQL
    THEN IF cfgKind # "*MySQLConfig"
         THEN [ok |-> FALSE, err |-> "invalidConfig", d |-> NewDriver("", FALSE)]
         ELSE [ok |-> TRUE, err |-> "none", d |-> NewDriver(DriverMySQL, useGorm)]
    ELSE IF driverType \in {DriverMongoDB, DriverSQLite}
    THEN [ok |-> FALSE, err |-> "notImplemented", d |-> NewDriver("", FALSE)]
    ELSE [ok |-> FALSE, err |-> "unsupported", d |-> NewDriver("", FALSE)]

\* ---------------------------------------------------------------- manager
NewManager == << >>

Registered == DOMAIN drivers

\* Manager.AddDriver on the map m: the map and the error afterwards.
AddDriver_Overwrite(m, name, d) ==
    [drivers |-> [x \in (DOMAIN m) \cup {name} |-> IF x = name THEN d ELSE m[x]],
     err |-> IF name \in DOMAIN m THEN "exists" ELSE "none"]

AddDriver(m, name, d) ==
    IF name \in DOMAIN m
    THEN [drivers |-> m, err |-> "exists"]
    ELSE [drivers |-> [x \in (DOMAIN m) \cup {name} |-> IF x = name THEN d ELSE m[x]],
          err |-> "none"]

\* Manager.GetDriver on the map m: the driver (0 for nil) and the error.
GetDriver_ZeroValue(m, name) ==
    IF name \in DOMAIN m THEN [d |-> m[name], err |-> "none"] ELSE [d |-> 0, err |-> "none"]

GetDriver(m, name) ==
    IF name \in DOMAIN m THEN [d |-> m[name], err |-> "none"] ELSE [d |-> 0, err |-> "notFound"]

\* Manager.ConnectAll: range over the map in the order the runtime picks,
\* Connect each driver, return at the first error.
RECURSIVE ConnectAllFrom(_, _, _, _, _, _, _)
ConnectAllFrom(m, order, outcome, i, ds, ps, visited) ==
    IF i > Len(order)
    THEN [drv |-> ds, pools |-> ps, err |-> "none", failed |-> << >>, visited |-> visited]
    ELSE LET n == order[i]
             r == Connect(ds[m[n]], ps, outcome[n])
             ds2 == [ds EXCEPT ![m[n]] = r.d]
         IN  IF r.err # "none"
             THEN [drv |-> ds2, pools |-> r.pools, err |-> "connectFailed",
                   failed |-> <<n>>, visited |-> Append(visited, n)]
             ELSE ConnectAllFrom(m, order, outcome, i + 1, ds2, r.pools, Append(visited, n))

RECURSIVE ConnectAll_Continue(_, _, _, _, _)
ConnectAll_Continue(m, order, outcome, ds, ps) ==
    IF order = << >>
    THEN [drv |-> ds, pools |-> ps, err |-> "none", failed |-> << >>, visited |-> << >>]
    ELSE LET n == Head(order)
             r == Connect(ds[m[n]], ps, outcome[n])
             rest == ConnectAll_Continue(m, Tail(order), outcome, [ds EXCEPT ![m[n]] = r.d], r.pools)
             bad == IF r.err # "none" THEN <<n>> ELSE << >>
         IN  [drv |-> rest.drv, pools |-> rest.pools,
              err |-> IF bad \o rest.failed = << >> THEN "none" ELSE "connectFailed",
              failed |-> IF bad # << >> THEN bad ELSE rest.failed,
              visited |-> <<n>> \o rest.visited]

ConnectAll(m, order, outcome, ds, ps) == ConnectAllFrom(m, order, outcome, 1, ds, ps, << >>)

\* Manager.CloseAll: range over the map, Close each driver, collect the errors.
RECURSIVE CloseAllFrom(_, _, _, _, _, _, _)
CloseAllFrom(m, order, fails, i, ds, ps, acc) ==
    IF i > Len(order)
    THEN [pools |-> ps, visited |-> acc.visited, errs |-> acc.errs,
          err |-> IF Len(acc.errs) > 0 THEN "errorsClosing" ELSE "none"]
    ELSE LET n == order[i]
             r == Close(ds[m[n]], ps, n \in fails)
         IN  CloseAllFrom(m, order, fails, i + 1, ds, r.pools,
                          [visited |-> Append(acc.visited, n),
                           errs |-> IF r.err # "none" THEN Append(acc.errs, n) ELSE acc.errs])

RECURSIVE CloseAll_ShortCircuit(_, _, _, _, _)
CloseAll_ShortCircuit(m, order, fails, ds, ps) ==
    IF order = << >>
    THEN [pools |-> ps, visited |-> << >>, errs |-> << >>, err |-> "none"]
    ELSE LET n == Head(order)
             r == Close(ds[m[n]], ps, n \in fails)
         IN  IF r.err # "none"
             THEN [pools |-> r.pools, visited |-> <<n>>, errs |-> <<n>>, err |-> "errorsClosing"]
             ELSE LET rest == CloseAll_ShortCircuit(m, Tail(order), fails, ds, r.pools)
                  IN  [rest EXCEPT !.visited = <<n>> \o @]

CloseAll(m, order, fails, ds, ps) ==
    CloseAllFrom(m, order, fails, 1, ds, ps, [visited |-> << >>, errs |-> << >>])

\* Manager.Health: one entry per registered driver.
ManagerHealth(m, ds, ps, pingOk) == [n \in DOMAIN m |-> Health(ds[m[n]], ps, n \in pingOk)]

\* ---------------------------------------------------------------- results
\* op: the operation; name, d: its arguments; err: the error returned;
\* visited: the drivers a batch operation reached, in order; failed: the
\* drivers it reports as failed; env: the pools whose Close the outside
\* world made fail.
Ret0 == [op |-> "none", name |-> "", d |-> 0, err |-> "none",
         visited |-> << >>, failed |-> << >>, env |-> {}, cfg |-> ""]

\* ---------------------------------------------------------------- file logger
Levels == {"debug", "info", "warn", "error"}

\* time.Time.Day(): the day of the month of a calendar date.
DayOf(date) == ((date - 1) % DaysPerMonth) + 1

NoMutexHolder == "none"

\* initWriter's file name: <name>-<date>.log with daily rotation (the date is
\* kept), <name>.log without (0).
LogFileName(dailyRotate, date) == IF dailyRotate THEN date ELSE 0

\* NewFileLogger(config) on calendar date `date`: currentDay, the first
\* writer, and the level loggers built on it.
NewFileLogger(dailyRotate, date) ==
    [dailyRotate |-> dailyRotate, currentDay |-> DayOf(date), mu |-> NoMutexHolder,
     writer |-> 1, lvl |-> [l \in Levels |-> 1]]

\* No StackLogger call made yet.
Stack0 == [pc |-> "running", stdout |-> << >>, file |-> << >>]

Goroutine0 == [pc |-> "idle", lg |-> 0, now |-> 0, crossed |-> FALSE, rot |-> 0]
LastCall0 == [callDate |-> 0, file |-> 0, crossed |-> FALSE, rot |-> 0]

\* No file logger: the stdout logger is in use.
LoggerIdle ==
    /\ today = 1
    /\ fl = NewFileLogger(FALSE, 1)
    /\ writers = << >>
    /\ files = {}
    /\ gs = [g \in LogGoroutines |-> Goroutine0]
    /\ ticker = "off"
    /\ lastCall = [g \in LogGoroutines |-> LastCall0]
    /\ stack = Stack0

\* ---------------------------------------------------------------- authentication
StatusOK == 200
StatusCreated == 201
StatusUnauthorized == 401
StatusUnprocessableEntity == 422
StatusInternalServerError == 500
MinPasswordLen == 6

RoleUser == "user"

Emails == {"ann@x.io", "bob@x.io"}
Passwords == {"secret-1", "secret-2"}

\* The string "".
EmptyString == << >>

\* utils.HashPassword: a salted hash, the string <<salt, digest of the password>>.
HashPassword(password, salt) == <<salt, password>>

\* utils.CheckPasswordHash: the password verifies against the hash.
CheckPasswordHash(password, hash) == Len(hash) = 2 /\ hash[2] = password

NoUser == [id |-> 0, email |-> "", password |-> EmptyString, role |-> "", active |-> FALSE]
NoToken == [user_id |-> 0, email |-> "", role |-> "", iss |-> "", key |-> ""]

\* AuthService.generateToken: the claims, signed with the configured secret.
generateToken(userID, email, role) ==
    [user_id |-> userID, email |-> email, role |-> role,
     iss |-> "config.JWT.Issuer", key |-> "config.JWT.Secret"]

\* The users table's unique constraint on email.
UniqueEmail(tbl, email) == \A i \in 1..Len(tbl) : tbl[i].email # email

\* INSERT INTO users / db.Create(&user).
InsertUser(tbl, user, dbOutcome) ==
    IF dbOutcome # "ok" THEN [err |-> "database error", users |-> tbl]
    ELSE IF ~UniqueEmail(tbl, user.email) THEN [err |-> "duplicate key", users |-> tbl]
    ELSE [err |-> "none", users |-> Append(tbl, user)]

\* WHERE email = ? AND active = true: the rows the query can return first
\* (0: no row).
QueryRows(tbl, email) ==
    LET rows == {i \in 1..Len(tbl) : tbl[i].email = email /\ tbl[i].active}
    IN  IF rows = {} THEN {0} ELSE rows

\* AuthService.Register with Active set to false.
Register_Inactive(request, m, ds, tbl, id, salt, dbOutcome) ==
    LET fail(e) == [err |-> e, user |-> NoUser, users |-> tbl]
    IN  IF request.type # "map[string]interface{}" THEN fail("invalid request format")
        ELSE IF request.email = "" \/ request.password = "" THEN fail("email and password are required")
        ELSE LET got == GetDriver(m, "primary")
             IN  IF got.err # "none" THEN fail("database connection error")
                 ELSE LET user == [id |-> id, email |-> request.email,
                                   password |-> HashPassword(request.password, salt),
                                   role |-> RoleUser, active |-> FALSE]
                          gormDB == GetGormDB(ds[got.d])
                          handle == IF gormDB # NilInterface THEN gormDB.ptr ELSE GetSQLDB(ds[got.d])
                          ins == InsertUser(tbl, user, dbOutcome)
                      IN  IF handle = NilPtr THEN fail("panic")
                          ELSE IF ins.err # "none" THEN fail("failed to create user")
                          ELSE [err |-> "none", user |-> [user EXCEPT !.password = EmptyString],
                                users |-> ins.users]

\* AuthService.Register(ctx, req): the request must be a map; email and
\* password must be non-empty; the user is created with role "user", active,
\* through the ORM handle if GetGormDB() is not the nil interface, through the
\* native handle otherwise; a call on a nil handle panics.
Register(request, m, ds, tbl, id, salt, dbOutcome) ==
    LET fail(e) == [err |-> e, user |-> NoUser, users |-> tbl]
    IN  IF request.type # "map[string]interface{}" THEN fail("invalid request format")
        ELSE IF request.email = "" \/ request.password = "" THEN fail("email and password are required")
        ELSE LET got == GetDriver(m, "primary")
             IN  IF got.err # "none" THEN fail("database connection error")
                 ELSE LET user == [id |-> id, email |-> request.email,
                                   password |-> HashPassword(request.password, salt),
                                   role |-> RoleUser, active |-> TRUE]
                          gormDB == GetGormDB(ds[got.d])
                          handle == IF gormDB # NilInterface THEN gormDB.ptr ELSE GetSQLDB(ds[got.d])
                          ins == InsertUser(tbl, user, dbOutcome)
                      IN  IF handle = NilPtr THEN fail("panic")
                          ELSE IF ins.err # "none" THEN fail("failed to create user")
                          ELSE [err |-> "none", user |-> [user EXCEPT !.password = EmptyString],
                                users |-> ins.users]

\* AuthService.Login(ctx, email, password): look the user up by email and
\* active, verify the password, issue the token, strip the password.
Login(email, password, m, ds, tbl, row, dbOutcome) ==
    LET fail(e) == [err |-> e, token |-> NoToken, user |-> NoUser]
        got == GetDriver(m, "primary")
    IN  IF got.err # "none" THEN fail("database connection error")
        ELSE LET gormDB == GetGormDB(ds[got.d])
                 handle == IF gormDB # NilInterface THEN gormDB.ptr ELSE GetSQLDB(ds[got.d])
             IN  IF handle = NilPtr THEN fail("panic")
                 ELSE IF dbOutcome # "ok" THEN fail("database error")
                 ELSE IF row = 0 THEN fail("invalid credentials")
                 ELSE IF ~CheckPasswordHash(password, tbl[row].password) THEN fail("invalid credentials")
                 ELSE [err |-> "none",
                       token |-> generateToken(tbl[row].id, tbl[row].email, tbl[row].role),
                       user |-> [tbl[row] EXCEPT !.password = EmptyString]]

\* binding:"required,email"
ValidEmail(e) == e \in Emails

\* len(password), for binding:"required,min=6"
PasswordLen(p) == IF p = "" THEN 0 ELSE IF p = "short" THEN 5 ELSE 8

\* c.ShouldBindJSON(&req) for RegisterRequest.
BindRegister(body) ==
    ValidEmail(body.email) /\ PasswordLen(body.password) >= MinPasswordLen /\ body.names

\* c.ShouldBindJSON(&req) for LoginRequest.
BindLogin(body) == ValidEmail(body.email) /\ PasswordLen(body.password) >= MinPasswordLen

\* AuthController.Register: bind, call the service with &req (a
\* *RegisterRequest), 500 on any error (and from gin.Recovery on a panic), 201 otherwise.
ControllerRegister(body, m, ds, tbl, id, salt, dbOutcome) ==
    IF ~BindRegister(body)
    THEN [status |-> StatusUnprocessableEntity, err |-> "Invalid request data", user |-> NoUser, users |-> tbl]
    ELSE LET r == Register([type |-> "*RegisterRequest", email |-> body.email, password |-> body.password],
                           m, ds, tbl, id, salt, dbOutcome)
         IN  IF r.err # "none"
             THEN [status |-> StatusInternalServerError, err |-> r.err, user |-> NoUser, users |-> r.users]
             ELSE [status |-> StatusCreated, err |-> "none", user |-> r.user, users |-> r.users]

\* AuthController.Login: bind, call the service, 401 on any error (500 from
\* gin.Recovery on a panic), 200 with the token and the user otherwise.
ControllerLogin(body, m, ds, tbl, row, dbOutcome) ==
    IF ~BindLogin(body)
    THEN [status |-> StatusUnprocessableEntity, err |-> "Invalid request data", token |-> NoToken, user |-> NoUser]
    ELSE LET r == Login(body.email, body.password, m, ds, tbl, row, dbOutcome)
         IN  IF r.err = "panic"
             THEN [status |-> StatusInternalServerError, err |-> r.err, token |-> NoToken, user |-> NoUser]
             ELSE IF r.err # "none"
             THEN [status |-> StatusUnauthorized, err |-> r.err, token |-> NoToken, user |-> NoUser]
             ELSE [status |-> StatusOK, err |-> "none", token |-> r.token, user |-> r.user]

\* ---------------------------------------------------------------- tokens
\* utils.jwtKey, the key VerifyToken checks signatures with.
jwtKey == "supersecretkey"

\* config.JWT.Secret: the default of JWT_SECRET, and a deployment that sets
\* it to another value.
DefaultSecret == "your-secret-key-change-in-production"
Secrets == {DefaultSecret, jwtKey}

\* config.JWT.Expiration, in days.
JWTExpiration == 1

\* A claim the token does not carry.
NoClaim == "<absent>"

NoSigned == [user_id |-> 0, email |-> "", role |-> "", iss |-> "", key |-> "", exp |-> 0]

\* token.SignedString([]byte(s.config.JWT.Secret)) in generateToken: the
\* claims of t with "exp" set config.JWT.Expiration after now, signed with secret.
SignedString(t, secret, now) ==
    [user_id |-> t.user_id, email |-> t.email, role |-> t.role, iss |-> t.iss,
     key |-> secret, exp |-> now + JWTExpiration]

\* utils.VerifyToken: jwt.ParseWithClaims with the key function returning
\* jwtKey; the library checks the signature and the expiry.
VerifyToken(tokenString, now) ==
    IF tokenString.key = jwtKey /\ now < tokenString.exp
    THEN [err |-> "none", claims |-> tokenString]
    ELSE [err |-> "invalid token", claims |-> NoSigned]

\* AuthService.RefreshToken: verify, read the email claim, issue a new token
\* with the same user_id, email and role.
RefreshToken(refreshToken, secret, now) ==
    LET v == VerifyToken(refreshToken, now)
    IN  IF v.err # "none" THEN [err |-> "invalid refresh token", token |-> NoSigned]
        ELSE IF v.claims.email = NoClaim THEN [err |-> "invalid token claims", token |-> NoSigned]
        ELSE [err |-> "none",
              token |-> SignedString(generateToken(v.claims.user_id, v.claims.email, v.claims.role),
                                     secret, now)]

\* AuthService.Logout: returns nil and records nothing.
Logout(token) == "none"

\* AuthController.RefreshToken: 401 on any error, 200 with the new token.
ControllerRefreshToken(refreshToken, secret, now) ==
    IF refreshToken = NoSigned
    THEN [status |-> StatusUnprocessableEntity, err |-> "Invalid request data", token |-> NoSigned]
    ELSE LET r == RefreshToken(refreshToken, secret, now)
         IN  IF r.err # "none"
             THEN [status |-> StatusUnauthorized, err |-> r.err, token |-> NoSigned]
             ELSE [status |-> StatusOK, err |-> "none", token |-> r.token]

\* AuthController.Logout: the service is called if the header is there; 200.
ControllerLogout(token) ==
    [status |-> StatusOK,
     err |-> IF token # NoSigned THEN Logout(token) ELSE "none",
     token |-> NoSigned]

\* No token call yet. at: the time of the call; token: the token sent.
Last0 == [op |-> "none", at |-> 0, token |-> NoSigned, status |-> 0, err |-> "none",
          result |-> NoSigned]

Jwt0 == [secret |-> DefaultSecret, issued |-> {}, loggedOut |-> {}, last |-> Last0]

Resp0 == [op |-> "none", email |-> "", password |-> "", env |-> "ok", bound |-> FALSE,
          fresh |-> FALSE, status |-> 0, err |-> "none", user |-> NoUser, token |-> NoToken]

\* What a caller keeps of the call it made last.
Called(r) == [op |-> r.op, email |-> r.email, password |-> r.password, err |-> r.err]

\* No auth call yet, an empty users table.
AuthIdle ==
    /\ users = << >>
    /\ resp = Resp0
    /\ prevResp = Called(Resp0)
    /\ jwt = Jwt0

\* ---------------------------------------------------------------- user service
StatusBadRequest == 400
StatusNotFound == 404

\* Path ids: the empty string, a string that is no UUID, and UUIDs (1, 2, ...).
EmptyId == -1
MalformedId == 0

\* uuid.Parse(id) succeeds.
UUIDParses(id) == id > 0

\* The rows of the table with the given id.
RowsById(tbl, id) == {i \in 1..Len(tbl) : tbl[i].id = id}

\* The table without the rows at the given positions.
RECURSIVE WithoutRows(_, _)
WithoutRows(tbl, rows) ==
    IF tbl = << >> THEN << >>
    ELSE LET rest == WithoutRows(SubSeq(tbl, 1, Len(tbl) - 1), rows)
         IN  IF Len(tbl) \in rows THEN rest ELSE Append(rest, tbl[Len(tbl)])

\* s.db.GetDriver("primary") and the `GetGormDB() != nil` test every service
\* operation makes: the handle the operation goes through.
PrimaryHandle(m, ds) ==
    LET got == GetDriver(m, "primary")
    IN  IF got.err # "none" THEN [err |-> "database connection error", path |-> "none", ptr |-> NilPtr]
        ELSE IF GetGormDB(ds[got.d]) # NilInterface
        THEN [err |-> "none", path |-> "gorm", ptr |-> GetGormDB(ds[got.d]).ptr]
        ELSE [err |-> "none", path |-> "sql", ptr |-> GetSQLDB(ds[got.d])]

\* UserService.GetUser that returns the row as read.
GetUser_KeepPassword(id, m, ds, tbl, dbOutcome) ==
    LET fail(e) == [err |-> e, user |-> NoUser]
        h == PrimaryHandle(m, ds)
    IN  IF h.err # "none" THEN fail(h.err)
        ELSE IF ~UUIDParses(id) THEN fail("invalid user ID format")
        ELSE IF h.ptr = NilPtr THEN fail("panic")
        ELSE IF dbOutcome # "ok" THEN fail("database error")
        ELSE IF RowsById(tbl, id) = {} THEN fail("user not found")
        ELSE [err |-> "none", user |-> tbl[CHOOSE i \in RowsById(tbl, id) : TRUE]]

\* UserService.GetUser(ctx, id): the primary driver, uuid.Parse, the row with
\* that id through the ORM or the native handle, the password removed.
GetUser(id, m, ds, tbl, dbOutcome) ==
    LET fail(e) == [err |-> e, user |-> NoUser]
        h == PrimaryHandle(m, ds)
    IN  IF h.err # "none" THEN fail(h.err)
        ELSE IF ~UUIDParses(id) THEN fail("invalid user ID format")
        ELSE IF h.ptr = NilPtr THEN fail("panic")
        ELSE IF dbOutcome # "ok" THEN fail("database error")
        ELSE IF RowsById(tbl, id) = {} THEN fail("user not found")
        ELSE [err |-> "none",
              user |-> [tbl[CHOOSE i \in RowsById(tbl, id) : TRUE] EXCEPT !.password = EmptyString]]

\* UserService.CreateUser that takes the role from the request.
CreateUser_RoleFromRequest(request, m, ds, tbl, id, salt, dbOutcome) ==
    LET fail(e) == [err |-> e, user |-> NoUser, users |-> tbl]
    IN  IF request.type # "map[string]interface{}" THEN fail("invalid request format")
        ELSE IF request.email = "" THEN fail("email is required")
        ELSE LET h == PrimaryHandle(m, ds)
                 user == [id |-> id, email |-> request.email,
                          password |-> IF request.password # ""
                                       THEN HashPassword(request.password, salt) ELSE EmptyString,
                          role |-> IF request.role # "" THEN request.role ELSE RoleUser,
                          active |-> TRUE]
                 ins == InsertUser(tbl, user, dbOutcome)
             IN  IF h.err # "none" THEN fail(h.err)
                 ELSE IF h.ptr = NilPtr THEN fail("panic")
                 ELSE IF ins.err # "none" THEN fail("failed to create user")
                 ELSE [err |-> "none", user |-> [user EXCEPT !.password = EmptyString],
                       users |-> ins.users]

\* UserService.CreateUser(ctx, req): a map with a non-empty email; the
\* password is hashed only if it is non-empty; role "user", active.
CreateUser(request, m, ds, tbl, id, salt, dbOutcome) ==
    LET fail(e) == [err |-> e, user |-> NoUser, users |-> tbl]
    IN  IF request.type # "map[string]interface{}" THEN fail("invalid request format")
        ELSE IF request.email = "" THEN fail("email is required")
        ELSE LET h == PrimaryHandle(m, ds)
                 user == [id |-> id, email |-> request.email,
                          password |-> IF request.password # ""
                                       THEN HashPassword(request.password, salt) ELSE EmptyString,
                          role |-> RoleUser, active |-> TRUE]
                 ins == InsertUser(tbl, user, dbOutcome)
             IN  IF h.err # "none" THEN fail(h.err)
                 ELSE IF h.ptr = NilPtr THEN fail("panic")
                 ELSE IF ins.err # "none" THEN fail("failed to create user")
                 ELSE [err |-> "none", user |-> [user EXCEPT !.password = EmptyString],
                       users |-> ins.users]

\* db.Save(&user) / UPDATE users SET ... WHERE id: the row with the user's id
\* takes the user's fields; the email stays unique.
SaveUser(tbl, user, dbOutcome) ==
    IF dbOutcome # "ok" THEN [err |-> "database error", users |-> tbl]
    ELSE IF \E i \in 1..Len(tbl) : tbl[i].id # user.id /\ tbl[i].email = user.email
    THEN [err |-> "duplicate key", users |-> tbl]
    ELSE [err |-> "none",
          users |-> [i \in 1..Len(tbl) |-> IF tbl[i].id = user.id THEN user ELSE tbl[i]]]

\* UserService.UpdateUser(ctx, id, req): GetUser (whose result has the
\* password removed), the non-empty fields of the request applied to it, the
\* result saved, the password removed again.
UpdateUser(id, request, m, ds, tbl, salt, dbGet, dbSave) ==
    LET fail(e) == [err |-> e, user |-> NoUser, users |-> tbl]
        got == GetUser(id, m, ds, tbl, dbGet)
    IN  IF got.err # "none" THEN fail(got.err)
        ELSE IF request.type # "map[string]interface{}" THEN fail("invalid request format")
        ELSE LET user == [got.user EXCEPT
                            !.email = IF request.email # "" THEN request.email ELSE @,
                            !.password = IF request.password # ""
                                         THEN HashPassword(request.password, salt) ELSE @]
                 h == PrimaryHandle(m, ds)
                 sv == SaveUser(tbl, user, dbSave)
             IN  IF h.err # "none" THEN fail(h.err)
                 ELSE IF h.ptr = NilPtr THEN fail("panic")
                 ELSE IF sv.err # "none" THEN fail("failed to update user")
                 ELSE [err |-> "none", user |-> [user EXCEPT !.password = EmptyString],
                       users |-> sv.users]

\* UserService.DeleteUser(ctx, id): uuid.Parse, the primary driver, DELETE
\* by id; deleting no row is no error.
DeleteUser(id, m, ds, tbl, dbOutcome) ==
    LET fail(e) == [err |-> e, users |-> tbl]
        h == PrimaryHandle(m, ds)
    IN  IF ~UUIDParses(id) THEN fail("invalid user ID format")
        ELSE IF h.err # "none" THEN fail(h.err)
        ELSE IF h.ptr = NilPtr THEN fail("panic")
        ELSE IF dbOutcome # "ok" THEN fail("failed to delete user")
        ELSE [err |-> "none", users |-> WithoutRows(tbl, RowsById(tbl, id))]

\* The rows a query returns, in the order the database gives them: any order
\* for the ORM's query (it has no ORDER BY), newest first for the raw query.
ListOrders(path, tbl) ==
    IF path = "gorm" THEN Perms(1..Len(tbl))
    ELSE {[i \in 1..Len(tbl) |-> Len(tbl) + 1 - i]}

\* UserService.ListUsers that returns the rows as read.
ListUsers_KeepPassword(limit, offset, m, ds, tbl, order, dbOutcome) ==
    LET fail(e) == [err |-> e, list |-> << >>]
        h == PrimaryHandle(m, ds)
        from == IF offset > 0 THEN offset ELSE 0
        to == IF from + limit < Len(tbl) THEN from + limit ELSE Len(tbl)
    IN  IF h.err # "none" THEN fail(h.err)
        ELSE IF h.ptr = NilPtr THEN fail("panic")
        ELSE IF dbOutcome # "ok" \/ (h.path = "sql" /\ offset < 0) THEN fail("database error")
        ELSE [err |-> "none", list |-> [k \in 1..(IF to > from THEN to - from ELSE 0) |-> tbl[order[from + k]]]]

\* UserService.ListUsers(ctx, limit, offset): the primary driver, LIMIT and
\* OFFSET through the ORM (which drops a non-positive offset) or the native
\* handle (where a negative offset is an error), every password removed.
ListUsers(limit, offset, m, ds, tbl, order, dbOutcome) ==
    LET fail(e) == [err |-> e, list |-> << >>]
        h == PrimaryHandle(m, ds)
        from == IF offset > 0 THEN offset ELSE 0
        to == IF from + limit < Len(tbl) THEN from + limit ELSE Len(tbl)
    IN  IF h.err # "none" THEN fail(h.err)
        ELSE IF h.ptr = NilPtr THEN fail("panic")
        ELSE IF dbOutcome # "ok" \/ (h.path = "sql" /\ offset < 0) THEN fail("database error")
        ELSE [err |-> "none",
              list |-> [k \in 1..(IF to > from THEN to - from ELSE 0) |->
                          [tbl[order[from + k]] EXCEPT !.password = EmptyString]]]

\* ---------------------------------------------------------------- user controller
IntBits == 16
MaxInt == 2^(IntBits - 1) - 1
MinInt == -(2^(IntBits - 1))

\* Two's-complement wrap-around of the int type.
Wrap(x) == ((x - MinInt) % 2^IntBits) + MinInt

DefaultPage == 1
DefaultLimit == 10
MaxLimit == 100

\* c.DefaultQuery(key, default): the parameter, or the default when absent.
DefaultQuery(q, default) == IF q.kind = "absent" THEN [kind |-> "num", n |-> default] ELSE q

\* strconv.Atoi with the error dropped: 0 for a non-numeric string, the
\* nearest int for a number out of range.
Atoi(q) ==
    IF q.kind # "num" THEN 0
    ELSE IF q.n > MaxInt THEN MaxInt
    ELSE IF q.n < MinInt THEN MinInt
    ELSE q.n

\* UserController.ListUsers, lines 66-79: page, limit and offset.
Paginate(pageQ, limitQ) ==
    LET page0 == Atoi(DefaultQuery(pageQ, DefaultPage))
        limit0 == Atoi(DefaultQuery(limitQ, DefaultLimit))
        page == IF page0 < 1 THEN 1 ELSE page0
        limit1 == IF limit0 < 1 THEN DefaultLimit ELSE limit0
        limit == IF limit1 > MaxLimit THEN MaxLimit ELSE limit1
    IN  [page |-> page, limit |-> limit, offset |-> Wrap((page - 1) * limit)]

\* c.JSON(status, body): message is the body's "error" or "message" string;
\* err is the service's error, which the body does not carry.
UResult(status, message, err, user, list, tbl) ==
    [status |-> status, message |-> message, err |-> err, user |-> user, list |-> list, users |-> tbl]

\* UserController.GetUser
ControllerGetUser(id, m, ds, tbl, dbOutcome) ==
    IF id = EmptyId THEN UResult(StatusBadRequest, "User ID is required", "User ID is required", NoUser, << >>, tbl)
    ELSE LET r == GetUser(id, m, ds, tbl, dbOutcome)
         IN  IF r.err = "panic" THEN UResult(StatusInternalServerError, "", r.err, NoUser, << >>, tbl)
             ELSE IF r.err # "none" THEN UResult(StatusNotFound, "User not found", r.err, NoUser, << >>, tbl)
             ELSE UResult(StatusOK, "", "none", r.user, << >>, tbl)

\* UserController.ListUsers
ControllerListUsers(pageQ, limitQ, m, ds, tbl, order, dbOutcome) ==
    LET p == Paginate(pageQ, limitQ)
        r == ListUsers(p.limit, p.offset, m, ds, tbl, order, dbOutcome)
    IN  IF r.err # "none" THEN UResult(StatusInternalServerError, IF r.err = "panic" THEN "" ELSE "Failed to fetch users", r.err, NoUser, << >>, tbl)
        ELSE UResult(StatusOK, "", "none", NoUser, r.list, tbl)

\* UserController.CreateUser
ControllerCreateUser(body, m, ds, tbl, id, salt, dbOutcome) ==
    IF ~body.json THEN UResult(StatusUnprocessableEntity, "Invalid request data", "Invalid request data", NoUser, << >>, tbl)
    ELSE LET r == CreateUser([type |-> "map[string]interface{}", email |-> body.email,
                              password |-> body.password, role |-> body.role,
                              active |-> body.active, id |-> body.id], m, ds, tbl, id, salt, dbOutcome)
         IN  IF r.err # "none" THEN UResult(StatusInternalServerError, IF r.err = "panic" THEN "" ELSE "Failed to create user", r.err, NoUser, << >>, r.users)
             ELSE UResult(StatusCreated, "User created successfully", "none", r.user, << >>, r.users)

\* UserController.UpdateUser
ControllerUpdateUser(id, body, m, ds, tbl, salt, dbGet, dbSave) ==
    IF id = EmptyId THEN UResult(StatusBadRequest, "User ID is required", "User ID is required", NoUser, << >>, tbl)
    ELSE IF ~body.json THEN UResult(StatusUnprocessableEntity, "Invalid request data", "Invalid request data", NoUser, << >>, tbl)
    ELSE LET r == UpdateUser(id, [type |-> "map[string]interface{}", email |-> body.email,
                                  password |-> body.password, role |-> body.role,
                                  active |-> body.active, id |-> body.id], m, ds, tbl, salt, dbGet, dbSave)
         IN  IF r.err = "panic" THEN UResult(StatusInternalServerError, "", r.err, NoUser, << >>, r.users)
             ELSE IF r.err # "none" THEN UResult(StatusNotFound, "User not found", r.err, NoUser, << >>, r.users)
             ELSE UResult(StatusOK, "User updated successfully", "none", r.user, << >>, r.users)

\* UserController.DeleteUser
ControllerDeleteUser(id, m, ds, tbl, dbOutcome) ==
    IF id = EmptyId THEN UResult(StatusBadRequest, "User ID is required", "User ID is required", NoUser, << >>, tbl)
    ELSE LET r == DeleteUser(id, m, ds, tbl, dbOutcome)
         IN  IF r.err = "panic" THEN UResult(StatusInternalServerError, "", r.err, NoUser, << >>, r.users)
             ELSE IF r.err # "none" THEN UResult(StatusNotFound, "User not found", r.err, NoUser, << >>, r.users)
             ELSE UResult(StatusOK, "User deleted successfully", "none", NoUser, << >>, r.users)

\* ---------------------------------------------------------------- actions
\* No HTTP server: the database layer on its own.
ServerIdle ==
    /\ srv = "closed"
    /\ appPc = "none"
    /\ req = [r \in 1..MaxRequests |-> [st |-> "none", saw |-> "none"]]

DBInit ==
    /\ drv = << >>
    /\ pools = << >>
    /\ drivers = NewManager
    /\ regOrder = << >>
    /\ ret = Ret0
    /\ ServerIdle
    /\ LoggerIdle
    /\ AuthIdle

\* The driver the factory made last, while it is in no Manager entry yet:
\* initDatabase hands each driver to AddDriver right after creating it.
Unregistered == {d \in {Len(drv)} : d > 0 /\ \A n \in Registered : drivers[n] # d}

\* factory.CreateDriver(driverType, driverConfig). The caller keeps one driver
\* variable: a driver it made before and never registered is unreachable once
\* the next one is made, and its slot is reused.
DoCreateDriver ==
    \E t \in DriverTags, c \in ConfigMenu :
        LET r == CreateDriver(t, c.kind, c.useGorm)
            kept == IF Unregistered # {} THEN SubSeq(drv, 1, Len(drv) - 1) ELSE drv
        IN  /\ Len(kept) < MaxDrivers
            /\ drv' = IF r.ok THEN Append(kept, r.d) ELSE drv
            /\ ret' = [Ret0 EXCEPT !.op = "CreateDriver", !.name = t, !.err = r.err, !.cfg = c.kind,
                                   !.d = IF r.ok THEN Len(kept) + 1 ELSE 0]
            /\ UNCHANGED <<pools, drivers, regOrder>>
            /\ UNCHANGED <<srvVars, logVars, authVars>>

\* dbManager.AddDriver(name, driver) with the driver fresh from the factory
DoAddDriver ==
    \E n \in Names, d \in Unregistered :
        LET r == AddDriver(drivers, n, d)
        IN  /\ drivers' = r.drivers
            /\ regOrder' = IF r.err = "none" THEN Append(regOrder, [name |-> n, d |-> d]) ELSE regOrder
            /\ ret' = [Ret0 EXCEPT !.op = "AddDriver", !.name = n, !.d = d, !.err = r.err]
            /\ UNCHANGED <<drv, pools>>
            /\ UNCHANGED <<srvVars, logVars, authVars>>

\* dbManager.GetDriver(name)
DoGetDriver ==
    \E n \in Names :
        LET r == GetDriver(drivers, n)
        IN  /\ ret' = [Ret0 EXCEPT !.op = "GetDriver", !.name = n, !.d = r.d, !.err = r.err]
            /\ UNCHANGED <<drv, pools, drivers, regOrder>>
            /\ UNCHANGED <<srvVars, logVars, authVars>>

\* driver.Connect(ctx) called directly, as initDatabase does
DoConnect ==
    \E d \in 1..Len(drv) : \E o \in ConnectOutcomes(drv[d]) :
        LET r == Connect(drv[d], pools, o)
        IN  /\ Len(pools) < MaxPools
            /\ drv' = [drv EXCEPT ![d] = r.d]
            /\ pools' = r.pools
            /\ ret' = [Ret0 EXCEPT !.op = "Connect", !.d = d, !.err = r.err]
            /\ UNCHANGED <<drivers, regOrder>>
            /\ UNCHANGED <<srvVars, logVars, authVars>>

\* driver.Close()
DoClose ==
    \E d \in 1..Len(drv), f \in BOOLEAN :
        LET r == Close(drv[d], pools, f)
        IN  /\ pools' = r.pools
            /\ ret' = [Ret0 EXCEPT !.op = "Close", !.d = d, !.err = r.err]
            /\ UNCHANGED <<drv, drivers, regOrder>>
            /\ UNCHANGED <<srvVars, logVars, authVars>>

\* driver.Ping(ctx) / driver.Health(ctx)
DoPing ==
    \E d \in 1..Len(drv), ok \in BOOLEAN :
        /\ \/ ret' = [Ret0 EXCEPT !.op = "Ping", !.d = d, !.err = Ping(drv[d], pools, ok)]
           \/ ret' = [Ret0 EXCEPT !.op = "Health", !.d = d, !.err = Health(drv[d], pools, ok)]
        /\ UNCHANGED <<drv, pools, drivers, regOrder>>
        /\ UNCHANGED <<srvVars, logVars, authVars>>

\* dbManager.ConnectAll(ctx)
DoConnectAll ==
    \E order \in Perms(Registered) :
    \E outcome \in [Registered -> {"ok", "openFail", "pingFail", "gormFailNil", "gormFailPtr"}] :
        LET r == ConnectAll(drivers, order, outcome, drv, pools)
        IN  /\ Registered # {}
            /\ Len(pools) + Cardinality(Registered) <= MaxPools
            /\ \A n \in Registered : outcome[n] \in ConnectOutcomes(drv[drivers[n]])
            /\ drv' = r.drv
            /\ pools' = r.pools
            /\ ret' = [Ret0 EXCEPT !.op = "ConnectAll", !.err = r.err,
                                   !.visited = r.visited, !.failed = r.failed]
            /\ UNCHANGED <<drivers, regOrder>>
            /\ UNCHANGED <<srvVars, logVars, authVars>>

\* dbManager.CloseAll()
DoCloseAll ==
    \E order \in Perms(Registered), fails \in SUBSET Registered :
        LET r == CloseAll(drivers, order, fails, drv, pools)
        IN  /\ Registered # {}
            /\ pools' = r.pools
            /\ ret' = [Ret0 EXCEPT !.op = "CloseAll", !.err = r.err, !.env = fails,
                                   !.visited = r.visited, !.failed = r.errs]
            /\ UNCHANGED <<drv, drivers, regOrder>>
            /\ UNCHANGED <<srvVars, logVars, authVars>>

\* The Manager and the Factory, as the application and its callers drive them.
Next ==
    \/ DoCreateDriver
    \/ DoAddDriver
    \/ DoGetDriver
    \/ DoConnectAll
    \/ DoCloseAll

Spec == DBInit /\ [][Next]_vars

\* ---------------------------------------------------------------- startup
\* config.Database: the primary connection and the map of additional ones.
\* A DatabaseConnectionConfig is [driver, useGorm].
PrimaryMenu == {[driver |-> DriverPostgreSQL, useGorm |-> TRUE],
                [driver |-> DriverPostgreSQL, useGorm |-> FALSE],
                [driver |-> DriverMySQL, useGorm |-> FALSE],
                [driver |-> DriverSQLite, useGorm |-> FALSE]}
SecondaryMenu == {[driver |-> DriverPostgreSQL, useGorm |-> TRUE],
                  [driver |-> DriverMySQL, useGorm |-> FALSE],
                  [driver |-> DriverMongoDB, useGorm |-> FALSE]}
SecondaryNames == {"primary", "analytics", "reports"}

\* DatabaseConnectionConfig.GetDatabaseDriverConfig: the driver tag and the
\* matching driver config, or ErrUnsupportedDriver.
GetDatabaseDriverConfig(dbc) ==
    IF dbc.driver = DriverPostgreSQL
    THEN [driverType |-> DriverPostgreSQL, kind |-> "*PostgresConfig",
          useGorm |-> dbc.useGorm, err |-> "none"]
    ELSE IF dbc.driver = DriverMySQL
    THEN [driverType |-> DriverMySQL, kind |-> "*MySQLConfig",
          useGorm |-> dbc.useGorm, err |-> "none"]
    ELSE [driverType |-> "", kind |-> "nil", useGorm |-> FALSE, err |-> "unsupported"]

\* What the outside world can answer to the Connect of a database configured
\* as dbc (nothing is asked when no driver comes out of the configuration).
InitOutcomes(dbc) ==
    IF GetDatabaseDriverConfig(dbc).err # "none" THEN {"ok"}
    ELSE ConnectOutcomes(NewDriver(dbc.driver, dbc.useGorm))

\* The four steps initDatabase takes for one database, written out once for
\* the primary and once in the loop: convert the configuration, create the
\* driver, register it under name, connect it. st is the manager's map, the
\* driver objects and the pools; err names the step that failed.
SetUpDatabase(dbc, name, outcome, st) ==
    LET c == GetDatabaseDriverConfig(dbc)
    IN  IF c.err # "none" THEN [st |-> st, err |-> "config"]
        ELSE LET r == CreateDriver(c.driverType, c.kind, c.useGorm)
             IN  IF ~r.ok THEN [st |-> st, err |-> "create"]
                 ELSE LET d == Len(st.drv) + 1
                          a == AddDriver(st.drivers, name, d)
                      IN  IF a.err # "none"
                          THEN [st |-> [st EXCEPT !.drv = Append(@, r.d)], err |-> "add"]
                          ELSE LET k == Connect(r.d, st.pools, outcome)
                               IN  [st |-> [drv |-> Append(st.drv, k.d),
                                            pools |-> k.pools,
                                            drivers |-> a.drivers,
                                            regOrder |-> Append(st.regOrder, [name |-> name, d |-> d])],
                                    err |-> IF k.err # "none" THEN "connect" ELSE "none"]

\* The loop over config.Database.Databases that leaves at the first failure.
RECURSIVE InitSecondaries_Break(_, _, _, _, _, _)
InitSecondaries_Break(dbs, order, outcome, i, st, acc) ==
    IF i > Len(order)
    THEN [st |-> st, visited |-> acc.visited, failed |-> acc.failed]
    ELSE LET n == order[i]
             r == SetUpDatabase(dbs[n], n, outcome[n], st)
         IN  IF r.err # "none"
             THEN [st |-> r.st, visited |-> Append(acc.visited, n), failed |-> Append(acc.failed, n)]
             ELSE InitSecondaries_Break(dbs, order, outcome, i + 1, r.st,
                                        [visited |-> Append(acc.visited, n), failed |-> acc.failed])

\* The loop over config.Database.Databases, in the order the runtime picks:
\* a failed step is logged with Warn and the loop continues.
RECURSIVE InitSecondaries(_, _, _, _, _, _)
InitSecondaries(dbs, order, outcome, i, st, acc) ==
    IF i > Len(order)
    THEN [st |-> st, visited |-> acc.visited, failed |-> acc.failed]
    ELSE LET n == order[i]
             r == SetUpDatabase(dbs[n], n, outcome[n], st)
         IN  InitSecondaries(dbs, order, outcome, i + 1, r.st,
                             [visited |-> Append(acc.visited, n),
                              failed |-> IF r.err # "none" THEN Append(acc.failed, n)
                                         ELSE acc.failed])

\* Application.initDatabase on the new Manager: the primary's failure is
\* returned, the secondaries' failures are not.
initDatabase(cfg, order, outcome) ==
    LET st0 == [drv |-> << >>, pools |-> << >>, drivers |-> NewManager, regOrder |-> << >>]
        p == SetUpDatabase(cfg.primary, "primary", outcome.primary, st0)
    IN  IF p.err # "none"
        THEN [st |-> p.st, err |-> p.err, visited |-> << >>, failed |-> << >>]
        ELSE LET s == InitSecondaries(cfg.databases, order, outcome.databases, 1, p.st,
                                      [visited |-> << >>, failed |-> << >>])
             IN  [st |-> s.st, err |-> "none", visited |-> s.visited, failed |-> s.failed]

StatusServiceUnavailable == 503

\* Application.readinessCheck: Manager.Health, then 200 if every entry is
\* nil and 503 otherwise. pingOk: the databases that answer a ping.
readinessCheck(m, ds, ps, pingOk) ==
    LET healthResults == ManagerHealth(m, ds, ps, pingOk)
    IN  IF \A n \in DOMAIN healthResults : healthResults[n] = "none"
        THEN [status |-> StatusOK, databases |-> healthResults]
        ELSE [status |-> StatusServiceUnavailable, databases |-> healthResults]

\* app.New calls initDatabase once, on the configuration it was given.
DoInitDatabase ==
    /\ ret.op = "none"
    /\ \E p \in PrimaryMenu, S \in SUBSET SecondaryNames :
       \E po \in InitOutcomes(p), dbs \in [S -> SecondaryMenu], order \in Perms(S) :
       \E oc \in {f \in [S -> ConnectOutcomes(NewDriver("", TRUE))] :
                      \A n \in S : f[n] \in InitOutcomes(dbs[n])} :
       \E r \in {initDatabase([primary |-> p, databases |-> dbs], order,
                              [primary |-> po, databases |-> oc])} :
          /\ drv' = r.st.drv
          /\ pools' = r.st.pools
          /\ drivers' = r.st.drivers
          /\ regOrder' = r.st.regOrder
          /\ ret' = [Ret0 EXCEPT !.op = "initDatabase", !.err = r.err,
                                 !.cfg = [primary |-> p, databases |-> dbs],
                                 !.env = [primary |-> po, databases |-> oc],
                                 !.visited = r.visited, !.failed = r.failed]
    /\ UNCHANGED <<srvVars, logVars, authVars>>

StartupInit == DBInit

StartupNext == DoInitDatabase

StartupSpec == StartupInit /\ [][StartupNext]_vars

\* One driver on its own: Connect, Close and Ping in any order.
DriverInit ==
    /\ \E t \in {DriverPostgreSQL, DriverMySQL}, g \in BOOLEAN : drv = <<NewDriver(t, g)>>
    /\ pools = << >>
    /\ drivers = NewManager
    /\ regOrder = << >>
    /\ ret = Ret0
    /\ ServerIdle
    /\ LoggerIdle
    /\ AuthIdle

DriverNext ==
    \/ DoConnect
    \/ DoClose
    \/ DoPing

DriverSpec == DriverInit /\ [][DriverNext]_vars

\* ---------------------------------------------------------------- shutdown
\* cmd/main.go and Application.Shutdown: the process serves requests until a
\* termination signal, then runs Shutdown under a 30 second context and exits.
InFlight == {r \in 1..MaxRequests : req[r].st = "inflight"}

\* The state main reaches once app.New has returned and Start is serving:
\* the primary driver created, registered and connected.
ShutdownInit ==
    /\ \E c \in ConfigMenu :
          LET t == IF c.kind = "*PostgresConfig" THEN DriverPostgreSQL ELSE DriverMySQL
              made == CreateDriver(t, c.kind, c.useGorm)
              conn == Connect(made.d, << >>, "ok")
          IN  /\ drv = <<conn.d>>
              /\ pools = conn.pools
    /\ drivers = AddDriver(NewManager, "primary", 1).drivers
    /\ regOrder = <<[name |-> "primary", d |-> 1]>>
    /\ ret = Ret0
    /\ srv = "listening"
    /\ appPc = "serving"
    /\ req = [r \in 1..MaxRequests |-> [st |-> "none", saw |-> "none"]]
    /\ LoggerIdle
    /\ AuthIdle

\* The server accepts a connection and starts the handler goroutine.
Accept(r) ==
    /\ appPc # "exited"
    /\ srv = "listening"
    /\ req[r].st = "none"
    /\ req' = [req EXCEPT ![r].st = "inflight"]
    /\ UNCHANGED <<dbVars, srv, appPc, logVars, authVars>>

\* What a query finds when a handler's service call reaches the primary driver's pool.
PoolSeenBy(m, ds, ps) ==
    LET got == GetDriver(m, "primary")
    IN  IF got.err # "none" \/ GetSQLDB(ds[got.d]) = NilPtr THEN "none"
        ELSE ps[GetSQLDB(ds[got.d])]

\* A handler's service call: GetDriver("primary") and a query on its pool.
HandlerQuery(r) ==
    /\ appPc # "exited"
    /\ req[r].st = "inflight"
    /\ req[r].saw = "none"
    /\ req' = [req EXCEPT ![r].saw = PoolSeenBy(drivers, drv, pools)]
    /\ UNCHANGED <<dbVars, srv, appPc, logVars, authVars>>

\* The handler writes its response and the connection goes idle.
Respond(r) ==
    /\ appPc # "exited"
    /\ req[r].st = "inflight"
    /\ req' = [req EXCEPT ![r].st = "done"]
    /\ UNCHANGED <<dbVars, srv, appPc, logVars, authVars>>

\* main: <-quit returns on SIGINT / SIGTERM.
Signal ==
    /\ appPc = "serving"
    /\ appPc' = "signalled"
    /\ UNCHANGED <<dbVars, srv, req, logVars, authVars>>

\* Application.Shutdown, first statement: app.dbManager.CloseAll().
ShutdownCloseAll ==
    \E order \in Perms(Registered), fails \in SUBSET Registered :
        LET r == CloseAll(drivers, order, fails, drv, pools)
        IN  /\ appPc = "signalled"
            /\ pools' = r.pools
            /\ ret' = [Ret0 EXCEPT !.op = "CloseAll", !.err = r.err, !.env = fails,
                                   !.visited = r.visited, !.failed = r.errs]
            /\ appPc' = "closedDB"
            /\ UNCHANGED <<drv, drivers, regOrder, srv, req, logVars, authVars>>

\* Application.Shutdown, second statement: app.server.Shutdown(ctx) closes the listener ...
ServerShutdownBegin ==
    /\ appPc = "closedDB"
    /\ srv' = "closed"
    /\ appPc' = "draining"
    /\ UNCHANGED <<dbVars, req, logVars, authVars>>

\* ... and returns once no request is in flight; main then exits.
ServerShutdownDrained ==
    /\ appPc = "draining"
    /\ InFlight = {}
    /\ appPc' = "exited"
    /\ UNCHANGED <<dbVars, srv, req, logVars, authVars>>

\* ... or returns when the 30 second context expires with requests still
\* in flight; main logs it and exits.
ServerShutdownExpired ==
    /\ appPc = "draining"
    /\ InFlight # {}
    /\ appPc' = "exited"
    /\ UNCHANGED <<dbVars, srv, req, logVars, authVars>>

ShutdownNext ==
    \/ \E r \in 1..MaxRequests : Accept(r)
    \/ \E r \in 1..MaxRequests : HandlerQuery(r)
    \/ \E r \in 1..MaxRequests : Respond(r)
    \/ Signal
    \/ ShutdownCloseAll
    \/ ServerShutdownBegin
    \/ ServerShutdownDrained
    \/ ServerShutdownExpired

ShutdownSpec == ShutdownInit /\ [][ShutdownNext]_vars


\* ---------------------------------------------------------------- file logger steps
LoggerInit ==
    /\ drv = << >> /\ pools = << >> /\ drivers = NewManager /\ regOrder = << >> /\ ret = Ret0
    /\ ServerIdle
    /\ today = 1
    /\ \E daily \in BOOLEAN :
          /\ fl = NewFileLogger(daily, 1)
          /\ writers = <<[date |-> LogFileName(daily, 1), open |-> FALSE]>>
          /\ ticker = IF daily THEN "sleep" ELSE "off"
    /\ files = {}
    /\ gs = [g \in LogGoroutines |-> Goroutine0]
    /\ lastCall = [g \in LogGoroutines |-> LastCall0]
    /\ stack = Stack0
    /\ AuthIdle

\* Midnight passes.
ClockTick ==
    /\ today < MaxDate
    /\ today' = today + 1
    /\ UNCHANGED <<dbVars, srvVars, authVars, stack, fl, writers, files, gs, ticker, lastCall>>

\* Debug / Info / Warn / Error: the level logger field is read and passed to
\* log(), which formats the message and, with daily rotation, reads the clock.
LogCall(g, level) ==
    /\ gs[g].pc = "idle"
    /\ gs' = [gs EXCEPT ![g] = [pc |-> IF fl.dailyRotate THEN "lock" ELSE "write",
                                lg |-> fl.lvl[level], now |-> today,
                                crossed |-> FALSE, rot |-> 0]]
    /\ UNCHANGED <<dbVars, srvVars, authVars, stack, today, fl, writers, files, ticker, lastCall>>

LockPoints == {"lock", "rotLock", "initLock"}

\* fl.mu.Lock(): in log(), then in rotateDaily(), then in initWriter().
\* sync.Mutex is not reentrant: Lock waits until the mutex is free, whoever holds it.
LogLock(g) ==
    /\ gs[g].pc \in LockPoints
    /\ fl.mu = NoMutexHolder
    /\ IF gs[g].pc = "lock"
       THEN \* log(): the lock before the day check
            /\ fl' = [fl EXCEPT !.mu = g]
            /\ gs' = [gs EXCEPT ![g].pc = "check"]
            /\ UNCHANGED writers
       ELSE IF gs[g].pc = "rotLock"
       THEN \* rotateDaily(): close the current writer, call initWriter()
            /\ fl' = [fl EXCEPT !.mu = g]
            /\ writers' = [writers EXCEPT ![fl.writer].open = FALSE]
            /\ gs' = [gs EXCEPT ![g].pc = "initLock"]
       ELSE \* initWriter(): a writer on today's file; its deferred Unlock frees the
            \* mutex, and rotateDaily's deferred Unlock then finds it unlocked
            /\ writers' = Append(writers, [date |-> LogFileName(fl.dailyRotate, today), open |-> FALSE])
            /\ fl' = [fl EXCEPT !.writer = Len(writers) + 1, !.mu = NoMutexHolder]
            /\ gs' = [gs EXCEPT ![g].pc = "crashed", ![g].rot = @ + 1]
    /\ UNCHANGED <<dbVars, srvVars, authVars, stack, today, files, ticker, lastCall>>

\* log(), holding the mutex: compare the day of the month, and either start
\* the rotation or unlock.
LogCheckDay(g) ==
    /\ gs[g].pc = "check"
    /\ IF DayOf(gs[g].now) # fl.currentDay
       THEN /\ fl' = [fl EXCEPT !.currentDay = DayOf(gs[g].now)]
            /\ gs' = [gs EXCEPT ![g].pc = "rotLock", ![g].crossed = TRUE]
       ELSE /\ fl' = [fl EXCEPT !.mu = NoMutexHolder]
            /\ gs' = [gs EXCEPT ![g].pc = "write"]
    /\ UNCHANGED <<dbVars, srvVars, authVars, stack, today, writers, files, ticker, lastCall>>

\* logger.Println(msg) on the level logger read at the call: lumberjack opens
\* the writer's file if it is not open and appends the line.
LogWrite(g) ==
    /\ gs[g].pc = "write"
    /\ writers' = [writers EXCEPT ![gs[g].lg].open = TRUE]
    /\ files' = files \cup {[file |-> writers[gs[g].lg].date, callDate |-> gs[g].now]}
    /\ lastCall' = [lastCall EXCEPT ![g] = [callDate |-> gs[g].now, file |-> writers[gs[g].lg].date,
                                            crossed |-> gs[g].crossed, rot |-> gs[g].rot]]
    /\ gs' = [gs EXCEPT ![g].pc = "idle"]
    /\ UNCHANGED <<dbVars, srvVars, authVars, stack, today, fl, ticker>>

\* startDailyRotation, every hour: lock, read currentDay, ...
TickerLock ==
    /\ ticker = "sleep"
    /\ fl.mu = NoMutexHolder
    /\ fl' = [fl EXCEPT !.mu = "ticker"]
    /\ ticker' = "locked"
    /\ UNCHANGED <<dbVars, srvVars, authVars, stack, today, writers, files, gs, lastCall>>

\* ... unlock, and do nothing about a changed day.
TickerUnlock ==
    /\ ticker = "locked"
    /\ fl' = [fl EXCEPT !.mu = NoMutexHolder]
    /\ ticker' = "sleep"
    /\ UNCHANGED <<dbVars, srvVars, authVars, stack, today, writers, files, gs, lastCall>>

LoggerNext ==
    \/ ClockTick
    \/ \E g \in LogGoroutines, l \in Levels : LogCall(g, l)
    \/ \E g \in LogGoroutines : LogLock(g)
    \/ \E g \in LogGoroutines : LogCheckDay(g)
    \/ \E g \in LogGoroutines : LogWrite(g)
    \/ TickerLock
    \/ TickerUnlock

LoggerSpec == LoggerInit /\ [][LoggerNext]_vars

\* ---------------------------------------------------------------- stack logger
\* The number of StackLogger calls followed.
MaxMessages == 3

\* The Logger interface's five levels.
StackLevels == Levels \cup {"fatal"}

\* The goroutine that calls the StackLogger.
StackCaller == "g1"

\* NewStackLogger: a SimpleLogger and a FileLogger.
StackInit == LoggerInit

\* SimpleLogger.log: the line goes to stdout / stderr.
SimpleLog(out, level) == Append(out, level)

\* StackLogger.Debug / Info / Warn / Error: sl.stdout.X then sl.file.X.
\* FileLogger.log with daily rotation takes fl.mu and compares the day; on a
\* changed day it calls rotateDaily, whose Lock of the held mutex never returns.
StackLog(level) ==
    /\ stack.pc = "running"
    /\ Len(stack.stdout) < MaxMessages
    /\ fl.dailyRotate => fl.mu = NoMutexHolder
    /\ IF fl.dailyRotate /\ DayOf(today) # fl.currentDay
       THEN /\ fl' = [fl EXCEPT !.currentDay = DayOf(today), !.mu = StackCaller]
            /\ stack' = [stack EXCEPT !.stdout = SimpleLog(@, level), !.pc = "blocked"]
            /\ UNCHANGED <<writers, files>>
       ELSE /\ writers' = [writers EXCEPT ![fl.lvl[level]].open = TRUE]
            /\ files' = files \cup {[file |-> writers[fl.lvl[level]].date, callDate |-> today]}
            /\ stack' = [stack EXCEPT !.stdout = SimpleLog(@, level), !.file = Append(@, level)]
            /\ UNCHANGED fl
    /\ UNCHANGED <<dbVars, srvVars, authVars, today, gs, ticker, lastCall>>

\* StackLogger.Fatal: sl.stdout.Fatal logs and calls os.Exit(1); the call of
\* sl.file.Fatal after it is never reached.
StackFatal ==
    /\ stack.pc = "running"
    /\ Len(stack.stdout) < MaxMessages
    /\ stack' = [stack EXCEPT !.stdout = SimpleLog(@, "fatal"), !.pc = "exited"]
    /\ UNCHANGED <<dbVars, srvVars, authVars, today, fl, writers, files, gs, ticker, lastCall>>

\* The hourly ticker of startDailyRotation, while the process lives.
StackTickerLock == stack.pc # "exited" /\ TickerLock
StackTickerUnlock == stack.pc # "exited" /\ TickerUnlock

StackNext ==
    \/ ClockTick
    \/ \E level \in Levels : StackLog(level)
    \/ StackFatal
    \/ StackTickerLock
    \/ StackTickerUnlock

StackSpec == StackInit /\ [][StackNext]_vars

\* ---------------------------------------------------------------- authentication steps
\* Users the table may hold at start: none, or one deactivated account.
SeedUsers ==
    {<< >>,
     <<[id |-> 1, email |-> "ann@x.io", password |-> HashPassword("secret-1", 1),
        role |-> RoleUser, active |-> FALSE]>>}

\* The application after initDatabase: the primary driver created from the
\* configuration, connected and registered.
AuthInit ==
    /\ \E c \in ConfigMenu :
          LET t == IF c.kind = "*PostgresConfig" THEN DriverPostgreSQL ELSE DriverMySQL
              made == CreateDriver(t, c.kind, c.useGorm)
              conn == Connect(made.d, << >>, "ok")
          IN  /\ drv = <<conn.d>>
              /\ pools = conn.pools
    /\ drivers = AddDriver(NewManager, "primary", 1).drivers
    /\ regOrder = <<[name |-> "primary", d |-> 1]>>
    /\ ret = Ret0
    /\ ServerIdle
    /\ LoggerIdle
    /\ users \in SeedUsers
    /\ resp = Resp0
    /\ prevResp = Called(Resp0)
    /\ jwt = Jwt0

DBOutcomes == {"ok", "error"}

\* uuid.New(): an id no user has yet.
NewUUID(tbl) ==
    CHOOSE n \in 1..(Len(tbl) + 1) :
        /\ \A i \in 1..Len(tbl) : tbl[i].id # n
        /\ \A k \in 1..(n - 1) : \E i \in 1..Len(tbl) : tbl[i].id = k

\* The salt HashPassword draws: one no stored hash has yet.
NewSalt(tbl) ==
    CHOOSE n \in 1..(Len(tbl) + 1) :
        /\ \A i \in 1..Len(tbl) : tbl[i].password = EmptyString \/ tbl[i].password[1] # n
        /\ \A k \in 1..(n - 1) : \E i \in 1..Len(tbl) :
              tbl[i].password # EmptyString /\ tbl[i].password[1] = k

\* A caller of the service: AuthService.Register with a map request.
DoRegister ==
    /\ Len(users) < MaxUsers
    /\ \E email \in Emails \cup {""}, password \in Passwords \cup {""}, dbOutcome \in DBOutcomes :
          LET r == Register([type |-> "map[string]interface{}", email |-> email, password |-> password],
                            drivers, drv, users, NewUUID(users), NewSalt(users), dbOutcome)
          IN  /\ users' = r.users
              /\ resp' = [op |-> "Register", email |-> email, password |-> password,
                          env |-> dbOutcome, bound |-> TRUE, fresh |-> UniqueEmail(users, email),
                          status |-> 0, err |-> r.err, user |-> r.user, token |-> NoToken]
    /\ prevResp' = Called(resp)
    /\ UNCHANGED <<dbVars, srvVars, logVars, jwt>>

\* A caller of the service: AuthService.Login.
DoLogin ==
    /\ \E email \in Emails, password \in Passwords, dbOutcome \in DBOutcomes :
       \E row \in QueryRows(users, email) :
          LET r == Login(email, password, drivers, drv, users, row, dbOutcome)
          IN  resp' = [op |-> "Login", email |-> email, password |-> password,
                       env |-> dbOutcome, bound |-> TRUE, fresh |-> FALSE,
                       status |-> 0, err |-> r.err, user |-> r.user, token |-> r.token]
    /\ prevResp' = Called(resp)
    /\ UNCHANGED <<dbVars, srvVars, logVars, jwt, users>>

\* POST /api/v1/auth/register
PostRegister ==
    /\ Len(users) < MaxUsers
    /\ \E email \in Emails \cup {"nomail"}, password \in {"secret-1", "short"}, names \in BOOLEAN,
          dbOutcome \in DBOutcomes :
          LET body == [email |-> email, password |-> password, names |-> names]
              r == ControllerRegister(body, drivers, drv, users, NewUUID(users), NewSalt(users), dbOutcome)
          IN  /\ users' = r.users
              /\ resp' = [op |-> "POST /api/v1/auth/register", email |-> email, password |-> password,
                          env |-> dbOutcome, bound |-> BindRegister(body),
                          fresh |-> UniqueEmail(users, email),
                          status |-> r.status, err |-> r.err, user |-> r.user, token |-> NoToken]
    /\ prevResp' = Called(resp)
    /\ UNCHANGED <<dbVars, srvVars, logVars, jwt>>

\* POST /api/v1/auth/login
PostLogin ==
    /\ \E email \in Emails \cup {"nomail"}, password \in {"secret-1", "short"}, dbOutcome \in DBOutcomes :
       \E row \in QueryRows(users, email) :
          LET body == [email |-> email, password |-> password]
              r == ControllerLogin(body, drivers, drv, users, row, dbOutcome)
          IN  resp' = [op |-> "POST /api/v1/auth/login", email |-> email, password |-> password,
                       env |-> dbOutcome, bound |-> BindLogin(body), fresh |-> FALSE,
                       status |-> r.status, err |-> r.err, user |-> r.user, token |-> r.token]
    /\ prevResp' = Called(resp)
    /\ UNCHANGED <<dbVars, srvVars, logVars, jwt, users>>

AuthNext ==
    \/ DoRegister
    \/ DoLogin
    \/ PostRegister
    \/ PostLogin

AuthSpec == AuthInit /\ [][AuthNext]_vars

\* ---------------------------------------------------------------- user endpoints
UResp0 == [op |-> "none", id |-> EmptyId, body |-> [json |-> FALSE, email |-> "", password |-> ""],
           bound |-> FALSE, env |-> "ok", existed |-> FALSE, page |-> [page |-> 0, limit |-> 0, offset |-> 0],
           query |-> [page |-> [kind |-> "absent", n |-> 0], limit |-> [kind |-> "absent", n |-> 0]],
           status |-> 0, message |-> "", err |-> "none", user |-> NoUser, list |-> << >>]

\* The application after initDatabase, serving the user endpoints.
UserInit ==
    /\ \E c \in ConfigMenu :
          LET t == IF c.kind = "*PostgresConfig" THEN DriverPostgreSQL ELSE DriverMySQL
              made == CreateDriver(t, c.kind, c.useGorm)
              conn == Connect(made.d, << >>, "ok")
          IN  /\ drv = <<conn.d>>
              /\ pools = conn.pools
    /\ drivers = AddDriver(NewManager, "primary", 1).drivers
    /\ regOrder = <<[name |-> "primary", d |-> 1]>>
    /\ ret = Ret0
    /\ ServerIdle
    /\ LoggerIdle
    /\ users \in SeedUsers
    /\ resp = UResp0
    /\ prevResp = Called(Resp0)
    /\ jwt = Jwt0

\* The ids a request path can carry: the router matches no empty id.
PathIds == {MalformedId} \cup 1..(MaxUsers + 1)

\* JSON bodies: one that does not parse, and objects with or without an
\* email and a password.
\* The last one also carries "role", "active" and "id" members.
Bodies ==
    {[json |-> FALSE, email |-> "", password |-> "", role |-> "", active |-> "", id |-> 0],
     [json |-> TRUE, email |-> "", password |-> "", role |-> "", active |-> "", id |-> 0],
     [json |-> TRUE, email |-> "", password |-> "secret-2", role |-> "", active |-> "", id |-> 0],
     [json |-> TRUE, email |-> "bob@x.io", password |-> "", role |-> "", active |-> "", id |-> 0],
     [json |-> TRUE, email |-> "ann@x.io", password |-> "secret-1",
      role |-> "admin", active |-> "false", id |-> MaxUsers + 1]}

\* page and limit query parameters of the list requests: absent, and small numbers.
Queries == {[kind |-> "absent", n |-> 0]} \cup {[kind |-> "num", n |-> n] : n \in {1, 2}}

\* GET /api/v1/users/:id
GetUserReq ==
    /\ \E id \in PathIds, dbOutcome \in DBOutcomes :
          \E r \in {ControllerGetUser(id, drivers, drv, users, dbOutcome)} :
              resp' = [UResp0 EXCEPT !.op = "GET /api/v1/users/:id", !.id = id, !.bound = TRUE,
                          !.env = dbOutcome, !.existed = RowsById(users, id) # {},
                          !.status = r.status, !.message = r.message, !.err = r.err, !.user = r.user]
    /\ UNCHANGED <<dbVars, srvVars, logVars, jwt, users, prevResp>>

\* GET /api/v1/users?page=&limit=
ListUsersReq ==
    /\ \E pageQ \in Queries, limitQ \in Queries, dbOutcome \in DBOutcomes :
       \E order \in ListOrders(PrimaryHandle(drivers, drv).path, users) :
          \E r \in {ControllerListUsers(pageQ, limitQ, drivers, drv, users, order, dbOutcome)} :
              resp' = [UResp0 EXCEPT !.op = "GET /api/v1/users", !.bound = TRUE, !.env = dbOutcome,
                          !.page = Paginate(pageQ, limitQ), !.query = [page |-> pageQ, limit |-> limitQ],
                          !.status = r.status, !.message = r.message, !.err = r.err, !.list = r.list]
    /\ UNCHANGED <<dbVars, srvVars, logVars, jwt, users, prevResp>>

\* POST /api/v1/users
CreateUserReq ==
    /\ Len(users) < MaxUsers
    /\ \E body \in Bodies, dbOutcome \in DBOutcomes :
          \E r \in {ControllerCreateUser(body, drivers, drv, users, NewUUID(users), NewSalt(users), dbOutcome)} :
              /\ users' = r.users
              /\ resp' = [UResp0 EXCEPT !.op = "POST /api/v1/users", !.body = body, !.bound = body.json,
                             !.env = dbOutcome, !.status = r.status, !.message = r.message, !.err = r.err, !.user = r.user]
    /\ UNCHANGED <<dbVars, srvVars, logVars, jwt, prevResp>>

\* PUT /api/v1/users/:id
UpdateUserReq ==
    /\ \E id \in PathIds, body \in Bodies, dbGet \in DBOutcomes :
       \E dbSave \in IF dbGet = "ok" THEN DBOutcomes ELSE {"ok"} :
          \E r \in {ControllerUpdateUser(id, body, drivers, drv, users, NewSalt(users), dbGet, dbSave)} :
              /\ users' = r.users
              /\ resp' = [UResp0 EXCEPT !.op = "PUT /api/v1/users/:id", !.id = id, !.body = body,
                             !.bound = body.json,
                             !.env = IF dbGet = "ok" THEN dbSave ELSE dbGet,
                             !.existed = RowsById(users, id) # {},
                             !.status = r.status, !.message = r.message, !.err = r.err, !.user = r.user]
    /\ UNCHANGED <<dbVars, srvVars, logVars, jwt, prevResp>>

\* DELETE /api/v1/users/:id
DeleteUserReq ==
    /\ \E id \in PathIds, dbOutcome \in DBOutcomes :
          \E r \in {ControllerDeleteUser(id, drivers, drv, users, dbOutcome)} :
              /\ users' = r.users
              /\ resp' = [UResp0 EXCEPT !.op = "DELETE /api/v1/users/:id", !.id = id, !.bound = TRUE,
                             !.env = dbOutcome, !.existed = RowsById(users, id) # {},
                             !.status = r.status, !.message = r.message, !.err = r.err]
    /\ UNCHANGED <<dbVars, srvVars, logVars, jwt, prevResp>>

\* AuthService.Register called with a map, beside the user endpoints.
RegisterCall ==
    /\ Len(users) < MaxUsers
    /\ \E body \in {b \in Bodies : b.json}, dbOutcome \in DBOutcomes :
          \E r \in {Register([type |-> "map[string]interface{}", email |-> body.email,
                              password |-> body.password, role |-> body.role,
                              active |-> body.active, id |-> body.id],
                             drivers, drv, users, NewUUID(users), NewSalt(users), dbOutcome)} :
              /\ users' = r.users
              /\ resp' = [UResp0 EXCEPT !.op = "Register", !.body = body, !.bound = TRUE,
                             !.env = dbOutcome, !.err = r.err, !.user = r.user]
    /\ UNCHANGED <<dbVars, srvVars, logVars, jwt, prevResp>>

\* AuthService.Login, beside the user endpoints.
LoginCall ==
    /\ \E email \in Emails, password \in Passwords, dbOutcome \in DBOutcomes :
       \E row \in QueryRows(users, email) :
          \E r \in {Login(email, password, drivers, drv, users, row, dbOutcome)} :
              resp' = [UResp0 EXCEPT !.op = "Login", !.bound = TRUE, !.env = dbOutcome,
                          !.body = [json |-> TRUE, email |-> email, password |-> password],
                          !.err = r.err, !.user = r.user]
    /\ UNCHANGED <<dbVars, srvVars, logVars, jwt, users, prevResp>>

UserNext ==
    \/ RegisterCall
    \/ LoginCall
    \/ GetUserReq
    \/ ListUsersReq
    \/ CreateUserReq
    \/ UpdateUserReq
    \/ DeleteUserReq

UserSpec == UserInit /\ [][UserNext]_vars

\* ---------------------------------------------------------------- pagination
\* page and limit query parameters over the whole range: absent, not a
\* number, and numbers from below the int range to above it.
WideQueries ==
    {[kind |-> "absent", n |-> 0], [kind |-> "text", n |-> 0]} \cup
    {[kind |-> "num", n |-> n] :
        n \in {MinInt - 1, -1, 0, 1, 2, DefaultLimit, MaxLimit, MaxLimit + 1, MaxInt, MaxInt + 1}}

PageInit ==
    /\ drv = << >> /\ pools = << >> /\ drivers = NewManager /\ regOrder = << >> /\ ret = Ret0
    /\ ServerIdle
    /\ LoggerIdle
    /\ users = << >>
    /\ resp = UResp0
    /\ prevResp = Called(Resp0)
    /\ jwt = Jwt0

\* UserController.ListUsers up to the service call: the page, limit and
\* offset computed from the query parameters.
PaginateCall ==
    /\ \E pageQ \in WideQueries, limitQ \in WideQueries :
          resp' = [UResp0 EXCEPT !.op = "Paginate", !.query = [page |-> pageQ, limit |-> limitQ],
                      !.page = Paginate(pageQ, limitQ)]
    /\ UNCHANGED <<dbVars, srvVars, logVars, jwt, users, prevResp>>

PageNext == PaginateCall

PageSpec == PageInit /\ [][PageNext]_vars

\* ---------------------------------------------------------------- token endpoints
\* The application serving, its primary database behind the ORM, one active
\* user registered, JWT_SECRET left at its default or set.
TokenInit ==
    /\ LET conn == Connect(CreateDriver(DriverPostgreSQL, "*PostgresConfig", TRUE).d, << >>, "ok")
           m == AddDriver(NewManager, "primary", 1).drivers
       IN  /\ drv = <<conn.d>>
           /\ pools = conn.pools
           /\ drivers = m
           /\ users = Register([type |-> "map[string]interface{}", email |-> "ann@x.io",
                                password |-> "secret-1"],
                               m, <<conn.d>>, << >>, NewUUID(<< >>), NewSalt(<< >>), "ok").users
    /\ regOrder = <<[name |-> "primary", d |-> 1]>>
    /\ ret = Ret0
    /\ ServerIdle
    /\ LoggerIdle
    /\ resp = Resp0
    /\ prevResp = Called(Resp0)
    /\ \E secret \in Secrets : jwt = [Jwt0 EXCEPT !.secret = secret]

\* Tokens somebody else made: signed with either key, one without the
\* email claim, one already expired.
ForeignTokens(now) ==
    {SignedString(generateToken(1, "ann@x.io", "admin"), k, now) : k \in Secrets}
        \cup {SignedString(generateToken(1, NoClaim, RoleUser), jwtKey, now),
              SignedString(generateToken(1, "ann@x.io", RoleUser), jwtKey, now - JWTExpiration)}

\* POST /api/v1/auth/login: on 200 the client has the token.
TokenLogin ==
    /\ \E password \in Passwords :
       \E row \in QueryRows(users, "ann@x.io") :
       \E r \in {ControllerLogin([email |-> "ann@x.io", password |-> password],
                                 drivers, drv, users, row, "ok")} :
          LET issued == SignedString(r.token, jwt.secret, today)
          IN  jwt' = [jwt EXCEPT
                        !.issued = IF r.status = StatusOK THEN @ \cup {issued} ELSE @,
                        !.last = [op |-> "login", at |-> today, token |-> NoSigned,
                                  status |-> r.status, err |-> r.err,
                                  result |-> IF r.status = StatusOK THEN issued ELSE NoSigned]]
    /\ UNCHANGED <<dbVars, srvVars, logVars, users, resp, prevResp>>

\* POST /api/v1/auth/logout with a token Login issued in the Authorization header.
TokenLogout ==
    /\ \E token \in jwt.issued :
       \E r \in {ControllerLogout(token)} :
          jwt' = [jwt EXCEPT !.loggedOut = @ \cup {token},
                             !.last = [op |-> "logout", at |-> today, token |-> token,
                                       status |-> r.status, err |-> r.err, result |-> r.token]]
    /\ UNCHANGED <<dbVars, srvVars, logVars, users, resp, prevResp>>

\* POST /api/v1/auth/refresh with a token Login issued or a foreign one.
TokenRefresh ==
    /\ \E token \in jwt.issued \cup ForeignTokens(today) :
       \E r \in {ControllerRefreshToken(token, jwt.secret, today)} :
          jwt' = [jwt EXCEPT !.last = [op |-> "refresh", at |-> today, token |-> token,
                                       status |-> r.status, err |-> r.err, result |-> r.token]]
    /\ UNCHANGED <<dbVars, srvVars, logVars, users, resp, prevResp>>

TokenNext ==
    \/ ClockTick
    \/ TokenLogin
    \/ TokenLogout
    \/ TokenRefresh

TokenSpec == TokenInit /\ [][TokenNext]_vars

\* ================================================================ claims
\* The position of name n in the history of successful AddDriver calls (0: never added).
RegIndex(n) ==
    IF \E i \in 1..Len(regOrder) : regOrder[i].name = n
    THEN CHOOSE i \in 1..Len(regOrder) : regOrder[i].name = n
    ELSE 0

NoDuplicates(s) == \A i, j \in 1..Len(s) : s[i] = s[j] => i = j

\* C1: Shutdown drains the HTTP server before it closes the drivers' pools,
\* so no request in flight ever queries a pool that CloseAll has closed.
C1_NoRequestSeesClosedPool ==
    \A r \in 1..MaxRequests : req[r].saw # "closed"

\* C2: with daily rotation, a log call made while the recorded day differs
\* from the current day returns after exactly one rotation, its message in
\* the new day's file: such a call never waits for the mutex it holds itself,
\* and once it has returned its message is in the file of the call's date.
C2_RotateOnceThenWrite ==
    /\ \A g \in LogGoroutines : ~(gs[g].pc \in LockPoints /\ fl.mu = g)
    /\ \A g \in LogGoroutines :
          lastCall[g].crossed => (lastCall[g].rot = 1 /\ lastCall[g].file = lastCall[g].callDate)

\* C3: a POST /api/v1/auth/register whose body passes binding validation, for
\* an email not yet in use, with the database answering, gets 201 and a user
\* object with an empty password, and the user is in the users table.
C3_RegisterCreated ==
    (resp.op = "POST /api/v1/auth/register" /\ resp.bound /\ resp.fresh /\ resp.env = "ok")
        => /\ resp.status = StatusCreated
           /\ resp.user.email = resp.email
           /\ resp.user.password = EmptyString
           /\ ~UniqueEmail(users, resp.email)

\* C4: after AuthService.Register has succeeded for an email and a password,
\* an immediately following AuthService.Login with the same email and
\* password, answered by the database, succeeds, and its token's claims carry
\* that email and the role "user".
C4_RegisterThenLogin ==
    (/\ prevResp.op = "Register" /\ prevResp.err = "none"
     /\ resp.op = "Login" /\ resp.email = prevResp.email /\ resp.password = prevResp.password
     /\ resp.env = "ok")
        => /\ resp.err = "none"
           /\ resp.token.email = prevResp.email
           /\ resp.token.role = "user"

\* C4's case: a successful Register followed at once by a Login with the same
\* email and password that returned a token.
C4_Witness ==
    /\ prevResp.op = "Register" /\ prevResp.err = "none"
    /\ resp.op = "Login" /\ resp.email = prevResp.email /\ resp.password = prevResp.password
    /\ resp.env = "ok"
    /\ resp.err = "none"
    /\ resp.token.email = prevResp.email

\* C5: after a successful Connect, GetSQLDB returns a non-nil handle whatever
\* the ORM mode, and GetGormDB's result compares unequal to nil if and only
\* if the driver's config had UseGorm set.
C5_HandlesAfterConnect ==
    (ret.op = "Connect" /\ ret.err = "none") =>
        /\ GetSQLDB(drv[ret.d]) # NilPtr
        /\ (GetGormDB(drv[ret.d]) # NilInterface) <=> drv[ret.d].useGorm

\* C6: when Connect returns an error, the driver looks exactly like one that
\* was never connected: no native handle, the ORM getter as on a new driver,
\* and Ping failing as not established.
C6_FailedConnectLeavesNothing ==
    (ret.op = "Connect" /\ ret.err # "none") =>
        /\ GetSQLDB(drv[ret.d]) = NilPtr
        /\ GetGormDB(drv[ret.d]) = GetGormDB(NewDriver(drv[ret.d].type, drv[ret.d].useGorm))
        /\ \A ok \in BOOLEAN : Ping(drv[ret.d], pools, ok) = "notEstablished"

\* C7: AddDriver with a name that is already registered returns an error and
\* leaves the whole mapping as it was, the first driver still under that name.
C7_AddDriverDuplicate ==
    [][(ret'.op = "AddDriver" /\ ret'.name \in DOMAIN drivers) =>
          /\ ret'.err = "exists"
          /\ drivers' = drivers
          /\ GetDriver(drivers', ret'.name).d = drivers[ret'.name]]_vars

C7_Witness ==
    /\ ret.op = "AddDriver"
    /\ ret.err = "exists"
    /\ ret.d # drivers[ret.name]
    /\ Cardinality(Registered) = 2

\* C8: GetDriver(name) returns the driver that a successful AddDriver put
\* under name, and for every name never added a not-found error and a nil
\* driver; the call changes nothing in the Manager or its drivers.
C8_GetDriver ==
    /\ [](ret.op = "GetDriver" =>
            IF RegIndex(ret.name) # 0
            THEN ret.err = "none" /\ ret.d = regOrder[RegIndex(ret.name)].d
            ELSE ret.err = "notFound" /\ ret.d = 0)
    /\ [][ret'.op = "GetDriver" => UNCHANGED <<drivers, drv, pools, regOrder>>]_vars

C8_Witness ==
    /\ ret.op = "GetDriver"
    /\ ret.err = "notFound"
    /\ Registered # {}

\* C9 as stated: when ConnectAll returns an error, no driver registered after
\* the failing one had Connect called on it.
C9_LaterRegisteredUntouched ==
    (ret.op = "ConnectAll" /\ ret.err # "none") =>
        \A n \in Registered :
            RegIndex(n) > RegIndex(ret.failed[1]) => n \notin Range(ret.visited)

\* C9 as amended: ConnectAll visits registered drivers one at a time, each at
\* most once; when a Connect fails it reports that driver, which is the last
\* one visited, and every driver not yet visited is exactly as it was before
\* the call; it returns nil only after visiting every registered driver, each
\* of which then holds a pool opened by this call.
C9_ConnectAllStopsAtFirstFailure ==
    [][ret'.op = "ConnectAll" =>
          LET v == ret'.visited
          IN  /\ NoDuplicates(v)
              /\ Range(v) \subseteq Registered
              /\ \A n \in Registered \ Range(v) : drv'[drivers[n]] = drv[drivers[n]]
              /\ Len(pools') <= Len(pools) + Len(v)
              /\ ret'.err = "none" =>
                    /\ Range(v) = Registered
                    /\ ret'.failed = << >>
                    /\ \A n \in Registered :
                          /\ drv'[drivers[n]].db > Len(pools)
                          /\ pools'[drv'[drivers[n]].db] = "open"
              /\ ret'.err # "none" =>
                    /\ v # << >>
                    /\ ret'.failed = <<v[Len(v)]>>
                    /\ \A i \in 1..(Len(v) - 1) : drv'[drivers[v[i]]].db > Len(pools)]_vars

C9_Witness ==
    /\ ret.op = "ConnectAll"
    /\ ret.err # "none"
    /\ Len(ret.visited) < Cardinality(Registered)
    /\ \E n \in Registered : n \notin Range(ret.visited) /\ drv[drivers[n]].db = NilPtr

\* C10: CloseAll calls Close once on every registered driver whatever the
\* other Close calls return, so every pool a registered driver holds is
\* closed afterwards; it returns nil exactly when no Close failed, and its
\* error otherwise names every driver whose Close failed.
C10_CloseAllAggregates ==
    ret.op = "CloseAll" =>
        LET failing == {n \in Registered : n \in ret.env /\ drv[drivers[n]].db # NilPtr}
        IN  /\ NoDuplicates(ret.visited)
            /\ Range(ret.visited) = Registered
            /\ \A n \in Registered :
                  drv[drivers[n]].db # NilPtr => pools[drv[drivers[n]].db] = "closed"
            /\ (ret.err = "none") <=> (failing = {})
            /\ NoDuplicates(ret.failed)
            /\ Range(ret.failed) = failing

C10_Witness ==
    /\ ret.op = "CloseAll"
    /\ Len(ret.visited) = 2
    /\ ret.failed = <<ret.visited[1]>>
    /\ drv[drivers[ret.visited[2]]].db # NilPtr

\* C11: CreateDriver(tag, config) returns a driver exactly when tag is
\* postgresql or mysql and config is that tag's config struct; the driver's
\* Type() is then tag and it holds no connection. A mismatched config gives
\* the invalid-config error, mongodb and sqlite the not-implemented error,
\* any other tag the unsupported error, each time with no driver.
C11_CreateDriver ==
    ret.op = "CreateDriver" =>
        LET tag == ret.name
            match == \/ (tag = DriverPostgreSQL /\ ret.cfg = "*PostgresConfig")
                     \/ (tag = DriverMySQL /\ ret.cfg = "*MySQLConfig")
        IN  /\ (ret.d # 0) <=> match
            /\ match => /\ ret.err = "none"
                        /\ Type(drv[ret.d]) = tag
                        /\ GetSQLDB(drv[ret.d]) = NilPtr
                        /\ drv[ret.d].gormDB = NilPtr
            /\ (tag \in {DriverPostgreSQL, DriverMySQL} /\ ~match) => ret.err = "invalidConfig"
            /\ tag \in {DriverMongoDB, DriverSQLite} => ret.err = "notImplemented"
            /\ tag \notin {DriverPostgreSQL, DriverMySQL, DriverMongoDB, DriverSQLite}
                  => ret.err = "unsupported"

\* C11's cases: a mismatched config was refused after drivers were created.
C11_Witness ==
    /\ ret.op = "CreateDriver"
    /\ ret.name = DriverPostgreSQL
    /\ ret.cfg = "*MySQLConfig"
    /\ ret.err = "invalidConfig"
    /\ Len(drv) > 0

\* C12: on a driver on which Connect was never called (it is as its
\* constructor left it), Ping and Health return the not-established error
\* whatever the network would answer, and change neither the driver nor any pool.
C12_PingUnconnected ==
    [][\A d \in 1..Len(drv) :
          (/\ ret'.op \in {"Ping", "Health"} /\ ret'.d = d
           /\ drv[d] = NewDriver(drv[d].type, drv[d].useGorm))
              => (ret'.err = "notEstablished" /\ drv' = drv /\ pools' = pools)]_vars

\* C12's case: Health was called on a driver that was never connected.
C12_Witness ==
    /\ ret.op = "Health"
    /\ ret.err = "notEstablished"
    /\ drv[ret.d] = NewDriver(drv[ret.d].type, drv[ret.d].useGorm)
    /\ pools = << >>

\* The auth calls that are a login, at the service and at the HTTP endpoint.
LoginOps == {"Login", "POST /api/v1/auth/login"}

\* C13: Login returns a token only when a user with the given email exists,
\* is active and the password verifies against its hash; otherwise (unknown
\* email, inactive user, wrong password) it returns an error and no token,
\* the HTTP response is 401, and no user record is changed.
C13_LoginTokenOnlyIfVerified ==
    [][LET verified == \E i \in 1..Len(users) :
                          /\ users[i].email = resp'.email
                          /\ users[i].active
                          /\ CheckPasswordHash(resp'.password, users[i].password)
       IN  (resp'.op \in LoginOps /\ resp'.bound) =>
              /\ users' = users
              /\ resp'.token # NoToken => verified
              /\ (~verified /\ resp'.env = "ok") =>
                    /\ resp'.err \notin {"none", "panic"}
                    /\ resp'.token = NoToken
                    /\ resp'.op = "POST /api/v1/auth/login" => resp'.status = StatusUnauthorized]_vars

\* The endpoints that address one user by the id in the path.
ByIdOps == {"GET /api/v1/users/:id", "PUT /api/v1/users/:id", "DELETE /api/v1/users/:id"}

\* C14: GET, PUT and DELETE on /api/v1/users/:id with a well-formed id that
\* no user record has (a parsable body, the database answering) get 404, and
\* no record is created or changed.
C14_UnknownIdNotFound ==
    [][(/\ resp'.op \in ByIdOps /\ resp'.bound /\ resp'.env = "ok"
        /\ UUIDParses(resp'.id) /\ RowsById(users, resp'.id) = {})
          => (resp'.status = StatusNotFound /\ users' = users)]_vars

\* The service errors that wrap an unexpected failure of the database.
DBFailures == {"database error", "failed to create user", "failed to update user",
               "failed to delete user"}

\* C15: when the database fails unexpectedly during a service operation
\* reached from an HTTP endpoint, the response status is 500 and the response
\* body does not carry the underlying error.
C15_DatabaseFailureIs500 ==
    (resp.op # "none" /\ resp.env = "error" /\ resp.err \in DBFailures)
        => (resp.status = StatusInternalServerError /\ resp.message # resp.err)

\* C16: a request that fails validation (a body that is no JSON object, or
\* one missing a required field, such as a POST /api/v1/users body without
\* an email) is answered with 400 or 422 and changes no stored record.
C16_ValidationRejected ==
    [][(/\ resp'.op \in {"POST /api/v1/users", "PUT /api/v1/users/:id"}
        /\ \/ ~resp'.body.json
           \/ (resp'.op = "POST /api/v1/users" /\ resp'.body.email = ""))
          => (/\ resp'.status \in {StatusBadRequest, StatusUnprocessableEntity}
              /\ users' = users)]_vars

\* C17: for every page and limit query parameter (absent, non-numeric, zero,
\* negative or large) the limit passed on is in [1,100] (10 when the input
\* is below 1 or no number, 100 when it is above 100), the page is at least
\* 1 (1 when the input is below 1 or no number), and the offset is
\* (page-1)*limit.
C17_PaginationClamped ==
    resp.op = "Paginate" =>
        LET pq == resp.query.page
            lq == resp.query.limit
            p == resp.page
        IN  /\ p.limit >= 1 /\ p.limit <= MaxLimit
            /\ lq.kind = "absent" => p.limit = DefaultLimit
            /\ (lq.kind = "text" \/ (lq.kind = "num" /\ lq.n < 1)) => p.limit = DefaultLimit
            /\ (lq.kind = "num" /\ lq.n > MaxLimit) => p.limit = MaxLimit
            /\ (lq.kind = "num" /\ lq.n >= 1 /\ lq.n <= MaxLimit) => p.limit = lq.n
            /\ p.page >= 1
            /\ (pq.kind # "num" \/ pq.n < 1) => p.page = 1
            /\ p.offset = (p.page - 1) * p.limit

\* C18: every user object a service operation returns (Register, Login,
\* GetUser, CreateUser, UpdateUser, each element of ListUsers) has an empty
\* Password field.
C18_NoPasswordLeaves ==
    /\ resp.user.password = EmptyString
    /\ \A k \in 1..Len(resp.list) : resp.list[k].password = EmptyString

\* C18's case: ListUsers returned two users, one of which has a stored hash.
C18_Witness ==
    /\ resp.op = "GET /api/v1/users"
    /\ resp.status = StatusOK
    /\ Len(resp.list) = 2
    /\ \E k \in 1..2 : \E i \in 1..Len(users) :
          users[i].id = resp.list[k].id /\ users[i].password # EmptyString

\* C19: initDatabase returns an error exactly when the primary database's
\* configuration conversion, driver creation, registration or Connect fails;
\* when it does not, every secondary database is processed whatever happened
\* to the others, the ones logged as failed are exactly those whose own step
\* failed, and every other
\* one, like the primary, is registered and connected.
C19_StartupFailsOnlyOnPrimary ==
    ret.op = "initDatabase" =>
        LET cfg == ret.cfg
            dbs == cfg.databases
            OwnFailure(n) == \/ GetDatabaseDriverConfig(dbs[n]).err # "none"
                             \/ n = "primary"
                             \/ ret.env.databases[n] # "ok"
            Connected(n) == /\ n \in DOMAIN drivers
                            /\ drv[drivers[n]].db # NilPtr
                            /\ pools[drv[drivers[n]].db] = "open"
        IN  /\ ret.err # "none" <=> \/ GetDatabaseDriverConfig(cfg.primary).err # "none"
                                    \/ ret.env.primary # "ok"
            /\ ret.err = "none" =>
                  /\ Connected("primary")
                  /\ drv[drivers["primary"]].type = cfg.primary.driver
                  /\ Len(ret.visited) = Cardinality(DOMAIN dbs)
                  /\ Range(ret.visited) = DOMAIN dbs
                  /\ Range(ret.failed) = {n \in DOMAIN dbs : OwnFailure(n)}
                  /\ \A n \in DOMAIN dbs \ Range(ret.failed) :
                        Connected(n) /\ drv[drivers[n]].type = dbs[n].driver

\* C19's case: startup succeeded although the first secondary database
\* failed to connect, and a secondary processed after it is connected.
C19_Witness ==
    /\ ret.op = "initDatabase"
    /\ ret.err = "none"
    /\ Len(ret.visited) >= 2
    /\ ret.visited[1] \in Range(ret.failed)
    /\ ret.env.databases[ret.visited[1]] # "ok"
    /\ ret.visited[2] \notin Range(ret.failed)
    /\ ret.visited[2] \in DOMAIN drivers

\* C20: when a StackLogger call has returned, or has ended the process, the
\* file logger has received every message the stdout logger received, at every
\* level, Fatal included.
C20_StackDeliversToBoth ==
    stack.pc \in {"running", "exited"} => stack.file = stack.stdout

\* C22: with daily rotation, every message in a log file was logged by a call
\* made on the calendar date the file is named after, also when two calls
\* are made on dates that share the day of the month.
C22_MessageInDatedFile ==
    fl.dailyRotate => \A f \in files : f.file = f.callDate

\* C23: a goroutine about to write its message holds the FileLogger's mutex,
\* and no goroutine waits for the mutex while its holder waits for it too.
C23_SerializedByMutex ==
    /\ \A g \in LogGoroutines : gs[g].pc = "write" => fl.mu = g
    /\ \A g \in LogGoroutines :
          (gs[g].pc \in LockPoints /\ fl.mu \in LogGoroutines) => gs[fl.mu].pc \notin LockPoints

\* C26: after any sequence of Connect and Close calls on a driver, at most
\* one pool is open, every open pool is the one the driver holds, and the
\* ORM handle, when there is one, wraps the pool the driver holds.
C26_OnePoolPerDriver ==
    /\ Cardinality({p \in 1..Len(pools) : pools[p] = "open"}) <= 1
    /\ \A d \in 1..Len(drv) :
          /\ \A p \in 1..Len(pools) : pools[p] = "open" => drv[d].db = p
          /\ drv[d].gormDB # NilPtr => drv[d].gormDB = drv[d].db

\* C27: a successful PUT /api/v1/users/:id whose body carries no non-empty
\* password leaves the stored password hash of that user as it was, and
\* leaves the stored email as it was unless the body carries a non-empty one.
C27_UpdateKeepsPassword ==
    [][(/\ resp'.op = "PUT /api/v1/users/:id"
        /\ resp'.status = StatusOK
        /\ resp'.body.password = "")
          => \A i \in RowsById(users, resp'.id) :
                \E j \in RowsById(users', resp'.id) :
                    /\ users'[j].password = users[i].password
                    /\ resp'.body.email = "" => users'[j].email = users[i].email]_vars

\* C24: with the primary driver connected in raw SQL mode, every service
\* operation ends with a result or an error value: none of them enters the
\* ORM branch with the absent ORM handle and panics on it.
C24_RawModeCompletes ==
    (resp.op # "none" /\ ~drv[drivers["primary"]].useGorm) => resp.err # "panic"

\* C25: on the stored users, GetUser, DeleteUser and ListUsers give the same
\* result and the same error through a primary driver connected in ORM mode
\* and through one connected in raw SQL mode, whatever order the database
\* returns the rows of each query in; ListUsers gives the newest user first.
C25_PathsEquivalent ==
    LET onGorm == <<Connect(NewDriver(DriverPostgreSQL, TRUE), << >>, "ok").d>>
        onSQL == <<Connect(NewDriver(DriverPostgreSQL, FALSE), << >>, "ok").d>>
        m == AddDriver(NewManager, "primary", 1).drivers
    IN  /\ \A id \in PathIds :
              /\ GetUser(id, m, onGorm, users, "ok") = GetUser(id, m, onSQL, users, "ok")
              /\ DeleteUser(id, m, onGorm, users, "ok") = DeleteUser(id, m, onSQL, users, "ok")
        /\ \A limit \in 1..MaxUsers, offset \in 0..MaxUsers :
           \A og \in ListOrders("gorm", users), os \in ListOrders("sql", users) :
              /\ ListUsers(limit, offset, m, onGorm, users, og, "ok")
                    = ListUsers(limit, offset, m, onSQL, users, os, "ok")
              /\ ListUsers(limit, offset, m, onGorm, users, og, "ok").list
                    = ListUsers(limit, offset, m, onGorm, users,
                                [i \in 1..Len(users) |-> Len(users) + 1 - i], "ok").list

\* C29: after initDatabase has returned without error, every driver
\* registered in the Manager is one whose Connect succeeded, and with every
\* database answering pings the /ready endpoint answers 200.
C29_RegisteredAreConnected ==
    (ret.op = "initDatabase" /\ ret.err = "none") =>
        /\ \A n \in DOMAIN drivers :
              /\ n # "primary" => ret.env.databases[n] = "ok"
              /\ drv[drivers[n]].db # NilPtr
        /\ readinessCheck(drivers, drv, pools, DOMAIN drivers).status = StatusOK

\* C30: no Register, CreateUser, UpdateUser or DeleteUser request changes the
\* role or the active flag of a user that exists, or makes a user's id
\* disappear other than by deleting it; every user that appears has role
\* "user" and is active, whatever role, active and id members the body has.
C30_RoleIdActiveFixed ==
    [][/\ \A j \in 1..Len(users') :
             IF RowsById(users, users'[j].id) = {}
             THEN users'[j].role = RoleUser /\ users'[j].active
             ELSE \A i \in RowsById(users, users'[j].id) :
                      users'[j].role = users[i].role /\ users'[j].active = users[i].active
       /\ resp'.op # "DELETE /api/v1/users/:id" =>
             \A i \in 1..Len(users) : RowsById(users', users[i].id) # {}]_vars

\* C30's case: a user was created from a body asking for role "admin",
\* active false and an id of its own, next to a deactivated user.
C30_Witness ==
    /\ resp.op = "POST /api/v1/users"
    /\ resp.status = StatusCreated
    /\ resp.body.role = "admin"
    /\ \E i \in 1..Len(users) :
          users[i].id = resp.user.id /\ users[i].role = RoleUser /\ users[i].active
    /\ \E i \in 1..Len(users) : ~users[i].active

\* C21: a refresh with a token that was given to POST /api/v1/auth/logout
\* before is rejected with 401.
C21_LoggedOutTokenRejected ==
    (jwt.last.op = "refresh" /\ jwt.last.token \in jwt.loggedOut)
        => jwt.last.status = StatusUnauthorized

\* C28: a refresh with a token Login issued, before its expiry, is accepted
\* whatever secret is configured, and the new token has the same user_id,
\* email and role; a refresh with a token not signed with the configured
\* secret is rejected.
C28_RefreshAcceptsOwnTokens ==
    jwt.last.op = "refresh" =>
        /\ (jwt.last.token \in jwt.issued /\ jwt.last.at < jwt.last.token.exp)
              => /\ jwt.last.status = StatusOK
                 /\ jwt.last.result.user_id = jwt.last.token.user_id
                 /\ jwt.last.result.email = jwt.last.token.email
                 /\ jwt.last.result.role = jwt.last.token.role
        /\ jwt.last.token.key # jwt.secret => jwt.last.status = StatusUnauthorized

====
